---- MODULE Spec2Model ----
(***************************************************************************)
(* Model of the mail-merge and OTP backend (src/server.js and              *)
(* src/unnamed/part_000).                                                   *)
(*                                                                         *)
(* The OTP part models the process-wide otpStore, the /send-otp handler    *)
(* (with its two await points: the mail transport and the audit write),    *)
(* the synchronous /verify-otp handler and the setInterval sweep.  Time is *)
(* Date.now() in milliseconds.                                             *)
(*                                                                         *)
(* Strings that the code builds or compares character by character are     *)
(* sequences (the OTP code is the sequence of its decimal digits); fixed   *)
(* message texts and e-mail addresses are TLA+ strings.  E-mail addresses  *)
(* are ordinary address strings: keys that collide with members of         *)
(* Object.prototype ("constructor", "__proto__", ...) are not in Emails.   *)
(***************************************************************************)
EXTENDS Integers, Sequences, FiniteSets, Bags, TLC

VARIABLES
    server,     \* which OTP server file is running: "merged" or "mailjs"
    db,         \* TRUE iff the Firestore handle db is non-null
    now,        \* Date.now()
    nextSweep,  \* earliest time at which the setInterval callback runs next
    otpStore,   \* email -> record {otp, expiresAt} or NoRecord
    pending,    \* bag of the /send-otp requests suspended at an await
    resp,       \* the HTTP response emitted by the step just taken, or NoResp;
                \* email and otp are those of the request it answers
    sent,       \* the message handed to sendMail by the step just taken, or NoMail
    okCount,    \* history: email -> successful verifications of its latest issued record
    rnd,        \* code generation alone: the numerator of the Math.random() draw
    csvReq,     \* /send-csv: the request being served (uploads and body fields)
    csvPc,      \* /send-csv: where the handler stands
    csvIdx,     \* /send-csv: index of the recipient row the loop is at
    results,    \* /send-csv: the summary { sent, failed, failures, details }
    attempts,   \* /send-csv: the rows handed to sendMail so far, in order
    files,      \* /send-csv: the temporary upload files still on disk
    csvResp,    \* /send-csv: the HTTP response, or NoResp
    csvMail,    \* /send-csv: the message handed to sendMail last, or NoMail
    delays,     \* /send-csv: history, the delays awaited so far, in order
    unlinks,    \* /send-csv: history, the files the cleanup called unlinkSync on
    mailsReq,   \* /send-mails: the request being served
    mailsPc,    \* /send-mails: where the handler stands
    mailsIdx,   \* /send-mails: index of the recipient row the loop is at
    mailsAttempts, \* /send-mails: the rows handed to sendMail so far, in order
    mailsFailed,   \* /send-mails: history, the addresses whose sendMail rejected
    mailsFile,  \* /send-mails: TRUE iff the uploaded CSV is still on disk
    mailsResp,  \* /send-mails: the HTTP response, or NoResp
    maxRetries, \* fetchWithBackoff: the maxRetries argument
    fbPc,       \* fetchWithBackoff: where the call stands
    attempt,    \* fetchWithBackoff: let attempt
    backoffTime,   \* fetchWithBackoff: let backoffTime
    fbRequests, \* fetchWithBackoff: history, number of fetch() calls issued
    fbWaits,    \* fetchWithBackoff: history, the delays awaited, in order
    fbLast,     \* fetchWithBackoff: what the latest fetch() came to
    fbResult,   \* fetchWithBackoff: the value returned or the error thrown
    pureCall,   \* a pure function under study: its name and its arguments
    pureRet,    \* the value it returned, or NoValue
    geReq,      \* /generate-email: the request being served
    gePc,       \* /generate-email: where the handler stands
    geResp,     \* /generate-email: the HTTP response sent last, or NoResp
    geResponses,   \* /generate-email: history, number of responses sent
    startCopy,  \* start-up: which server file is started
    initialPort,   \* start-up: the configured port
    tryIdx,     \* start-up: startServer's loop index i
    startPc,    \* start-up: where the start-up stands
    startLog    \* start-up: history, the ports tried and what listen came to

otpVars == <<server, db, now, nextSweep, otpStore, pending, resp, sent, okCount>>
genVars == <<rnd>>
csvVars == <<csvReq, csvPc, csvIdx, results, attempts, files, csvResp, csvMail, delays, unlinks>>
mailsVars == <<mailsReq, mailsPc, mailsIdx, mailsAttempts, mailsFailed, mailsFile, mailsResp>>
fbVars == <<maxRetries, fbPc, attempt, backoffTime, fbRequests, fbWaits, fbLast, fbResult>>
pureVars == <<pureCall, pureRet>>
geVars == <<geReq, gePc, geResp, geResponses>>
startVars == <<startCopy, initialPort, tryIdx, startPc, startLog>>
restVars == <<pureVars, geVars, startVars>>
vars == <<otpVars, genVars, csvVars, mailsVars, fbVars, restVars>>

----------------------------------------------------------------------------
(* Bounds of the model *)

\* Math.random() is modelled as rnd / RandDen, rnd \in 0 .. RandDen - 1
RandDen == 1000
\* the clock stops advancing at MaxNow
MaxNow == 300001
\* number of /send-otp requests that may be suspended at once
MaxPending == 2
\* number of data rows of the uploaded CSV
MaxRows == 3
\* number of data rows of a CSV sent along with a logo or a banner
MaxImageRows == 1
\* length of the HTML body, in symbols
MaxHtmlLen == 4
\* length of a name cell, in symbols
MaxNameLen == 2

(* Program constants *)

\* async function fetchWithBackoff(url, payload, maxRetries = 5)
DefaultMaxRetries == 5
\* let backoffTime = 1000
InitialBackoff == 1000

\* 5 * 60 * 1000
OtpTtl == 300000
\* 60 * 1000
SweepPeriod == 60000
\* Math.floor(100000 + Math.random() * 900000)
OtpBase == 100000
OtpSpan == 900000

Emails == {"a@x.com", "b@x.com"}
\* req.body.email: an address, or missing/empty (falsy)
EmailInputs == Emails \cup {""}

NoRecord == [none |-> TRUE]
NoResp == [op |-> "none"]
NoMail == [to |-> ""]

\* the amounts by which the clock advances between two steps
Deltas == {OtpTtl \div 2, OtpTtl \div 2 + 1}

----------------------------------------------------------------------------
(* Pure functions *)

RECURSIVE Digits(_)
\* Number.prototype.toString() of a non-negative integer: its decimal digits
Digits(n) == IF n < 10 THEN <<n>> ELSE Append(Digits(n \div 10), n % 10)

\* a mutation: the code is drawn from [0, 1000000), without the 100000 offset
GenOtp_NoOffset(k) == Digits((k * (OtpBase + OtpSpan)) \div RandDen)

\* Math.floor(100000 + Math.random() * 900000).toString(), Math.random() = k / RandDen
GenOtp(k) == Digits(OtpBase + (k * OtpSpan) \div RandDen)

\* the random draws used by /send-otp in the store model: both ends of [0, 1)
RandSamples == {0, RandDen - 1}

\* req.body.otp: a code string, or missing/empty (falsy)
OtpInputs == {GenOtp(k) : k \in RandSamples} \cup {<<>>}

MsgNotFound == "OTP not found. Request a new code."
MsgExpired == "OTP expired. Please request a new one."
MsgInvalid == "Invalid OTP. Please try again."
MsgVerified == "OTP verified"
MsgSent == "OTP sent"
MsgSendFailed == "Failed to send OTP"

Response(op, email, otp, status, success, msg) ==
    [op |-> op, email |-> email, otp |-> otp, status |-> status,
     success |-> success, msg |-> msg]

\* a mutation: a re-issuance extends the previous expiry instead of restarting it
StoreWrite_ExtendExpiry(store, t, email, k) ==
    [store EXCEPT ![email] =
        [otp |-> GenOtp(k),
         expiresAt |-> IF store[email] = NoRecord THEN t + OtpTtl
                       ELSE store[email].expiresAt + OtpTtl]]

\* a mutation: the code is written first, the expiry of an existing record stays
StoreWrite_KeepExpiry(store, t, email, k) ==
    [store EXCEPT ![email] =
        [otp |-> GenOtp(k),
         expiresAt |-> IF store[email] = NoRecord THEN t + OtpTtl
                       ELSE store[email].expiresAt]]

\* a mutation: an existing record keeps its code, only the expiry is renewed
StoreWrite_KeepCode(store, t, email, k) ==
    [store EXCEPT ![email] =
        [otp |-> IF store[email] = NoRecord THEN GenOtp(k) ELSE store[email].otp,
         expiresAt |-> t + OtpTtl]]

\* otpStore[email] = { otp, expiresAt } with expiresAt = Date.now() + 5 * 60 * 1000
StoreWrite(store, t, email, k) ==
    [store EXCEPT ![email] = [otp |-> GenOtp(k), expiresAt |-> t + OtpTtl]]

\* a mutation: deleting one record empties the store
StoreDelete_Clear(store, email) == [e \in DOMAIN store |-> NoRecord]

\* delete otpStore[email]
StoreDelete(store, email) == [store EXCEPT ![email] = NoRecord]

\* /verify-otp: if (!email || !otp) return 400
\* (a rejected request is not annotated with its parameters)
VerifyMissing(store, email, otp) ==
    [store |-> store,
     resp |-> Response("verify-otp", "", <<>>, 400, FALSE, "Missing email or otp")]

\* /verify-otp: if (!record) return "OTP not found"
VerifyNotFound(store, email, otp) ==
    [store |-> store,
     resp |-> Response("verify-otp", email, otp, 200, FALSE, MsgNotFound)]

\* a mutation: the expired record is reported but left in the store
VerifyExpired_Keeps(store, email, otp) ==
    [store |-> store,
     resp |-> Response("verify-otp", email, otp, 200, FALSE, MsgExpired)]

\* /verify-otp: if (Date.now() > record.expiresAt) { delete; return "OTP expired" }
VerifyExpired(store, email, otp) ==
    [store |-> StoreDelete(store, email),
     resp |-> Response("verify-otp", email, otp, 200, FALSE, MsgExpired)]

\* a mutation: a wrong code burns the record
VerifyMismatch_Deletes(store, email, otp) ==
    [store |-> StoreDelete(store, email),
     resp |-> Response("verify-otp", email, otp, 200, FALSE, MsgInvalid)]

\* /verify-otp: if (record.otp !== otp) return "Invalid OTP"
VerifyMismatch(store, email, otp) ==
    [store |-> store,
     resp |-> Response("verify-otp", email, otp, 200, FALSE, MsgInvalid)]

\* a mutation: the verified record stays in the store
VerifySuccess_Keeps(store, email, otp) ==
    [store |-> store,
     resp |-> Response("verify-otp", email, otp, 200, TRUE, MsgVerified)]

\* /verify-otp: delete otpStore[email]; return "OTP verified"
VerifySuccess(store, email, otp) ==
    [store |-> StoreDelete(store, email),
     resp |-> Response("verify-otp", email, otp, 200, TRUE, MsgVerified)]

\* a mutation: the code is compared before the expiry is looked at
VerifyHandler_MismatchFirst(store, t, email, otp) ==
    LET record == store[email] IN
    IF email = "" \/ otp = <<>> THEN VerifyMissing(store, email, otp)
    ELSE IF record = NoRecord THEN VerifyNotFound(store, email, otp)
    ELSE IF record.otp # otp THEN VerifyMismatch(store, email, otp)
    ELSE IF t > record.expiresAt THEN VerifyExpired(store, email, otp)
    ELSE VerifySuccess(store, email, otp)

\* a mutation: the record counts as expired from the instant of its expiry on
VerifyHandler_ExpiredAtExpiry(store, t, email, otp) ==
    LET record == store[email] IN
    IF email = "" \/ otp = <<>> THEN VerifyMissing(store, email, otp)
    ELSE IF record = NoRecord THEN VerifyNotFound(store, email, otp)
    ELSE IF t >= record.expiresAt THEN VerifyExpired(store, email, otp)
    ELSE IF record.otp # otp THEN VerifyMismatch(store, email, otp)
    ELSE VerifySuccess(store, email, otp)

\* the body of /verify-otp, its checks in the order of the code:
\* the new store and the response
VerifyHandler(store, t, email, otp) ==
    LET record == store[email] IN
    IF email = "" \/ otp = <<>> THEN VerifyMissing(store, email, otp)
    ELSE IF record = NoRecord THEN VerifyNotFound(store, email, otp)
    ELSE IF t > record.expiresAt THEN VerifyExpired(store, email, otp)
    ELSE IF record.otp # otp THEN VerifyMismatch(store, email, otp)
    ELSE VerifySuccess(store, email, otp)

\* a mutation: the sweep empties the store
SweepStore_All(store, t) == [e \in DOMAIN store |-> NoRecord]

\* a mutation: the sweep compares with < and leaves a record expiring right now
SweepStore_Strict(store, t) ==
    [e \in DOMAIN store |->
        IF store[e] # NoRecord /\ store[e].expiresAt < t THEN NoRecord ELSE store[e]]

\* the setInterval callback: delete every record with expiresAt <= now
SweepStore(store, t) ==
    [e \in DOMAIN store |->
        IF store[e] # NoRecord /\ store[e].expiresAt <= t THEN NoRecord ELSE store[e]]

----------------------------------------------------------------------------
(* The OTP server *)

GenIdle == rnd = 0

\* no /send-csv request is being served
CsvIdle ==
    /\ csvReq = [none |-> TRUE]
    /\ csvPc = "idle"
    /\ csvIdx = 0
    /\ results = [none |-> TRUE]
    /\ attempts = <<>>
    /\ files = {}
    /\ csvResp = NoResp
    /\ csvMail = NoMail
    /\ delays = <<>>
    /\ unlinks = {}

\* no /send-mails request is being served
MailsIdle ==
    /\ mailsReq = [none |-> TRUE]
    /\ mailsPc = "idle"
    /\ mailsIdx = 0
    /\ mailsAttempts = <<>>
    /\ mailsFailed = <<>>
    /\ mailsFile = FALSE
    /\ mailsResp = NoResp

\* no pure function is under study
PureIdle ==
    /\ pureCall = [fn |-> "none"]
    /\ pureRet = [none |-> TRUE]

\* no /generate-email request is being served
GeIdle ==
    /\ geReq = [none |-> TRUE]
    /\ gePc = "idle"
    /\ geResp = NoResp
    /\ geResponses = 0

\* no server start-up is under study
StartIdle ==
    /\ startCopy = "none"
    /\ initialPort = 0
    /\ tryIdx = 0
    /\ startPc = "idle"
    /\ startLog = <<>>

RestIdle == PureIdle /\ GeIdle /\ StartIdle

\* no fetchWithBackoff call is running
FbIdle ==
    /\ maxRetries = 0
    /\ fbPc = "idle"
    /\ attempt = 0
    /\ backoffTime = 0
    /\ fbRequests = 0
    /\ fbWaits = <<>>
    /\ fbLast = "none"
    /\ fbResult = [none |-> TRUE]

\* the OTP endpoints of the merged server right after start-up, nothing requested
OtpQuiet ==
    /\ server = "merged"
    /\ now = 0
    /\ nextSweep = SweepPeriod
    /\ otpStore = [e \in Emails |-> NoRecord]
    /\ pending = EmptyBag
    /\ resp = NoResp
    /\ sent = NoMail
    /\ okCount = [e \in Emails |-> 0]

\* the same, on a server without Firestore
OtpIdle == OtpQuiet /\ db = FALSE

OtpInit ==
    /\ server \in {"merged", "mailjs"}
    /\ db \in BOOLEAN
    /\ (server = "mailjs" => db)
    /\ now = 0
    /\ nextSweep = SweepPeriod
    /\ otpStore = [e \in Emails |-> NoRecord]
    /\ pending = EmptyBag
    /\ resp = NoResp
    /\ sent = NoMail
    /\ okCount = [e \in Emails |-> 0]
    /\ GenIdle
    /\ CsvIdle
    /\ MailsIdle
    /\ FbIdle
    /\ RestIdle

\* Date.now() advances
Tick(d) ==
    /\ now + d <= MaxNow
    /\ now' = now + d
    /\ resp' = NoResp
    /\ sent' = NoMail
    /\ UNCHANGED <<server, db, nextSweep, otpStore, pending, okCount, genVars, csvVars, mailsVars, fbVars, restVars>>

\* /send-otp up to its first await: validation, code generation, store write
SendOtpStart(email, k) ==
    IF email = "" THEN
        /\ resp' = Response("send-otp", email, <<>>, 400, FALSE, "Email required")
        /\ sent' = NoMail
        /\ UNCHANGED <<server, db, now, nextSweep, otpStore, pending, okCount, genVars, csvVars, mailsVars, fbVars, restVars>>
    ELSE
        /\ BagCardinality(pending) < MaxPending
        /\ otpStore' = StoreWrite(otpStore, now, email, k)
        /\ pending' = pending (+) SetToBag({[email |-> email, pc |-> "mail"]})
        /\ sent' = [to |-> email, otp |-> GenOtp(k)]
        /\ okCount' = [okCount EXCEPT ![email] = 0]
        /\ resp' = NoResp
        /\ UNCHANGED <<server, db, now, nextSweep, genVars, csvVars, mailsVars, fbVars, restVars>>

\* a mutation: a rejected mail takes the record back out of the store
MailDone_Rollback(p, delivered) ==
    /\ BagIn(p, pending)
    /\ p.pc = "mail"
    /\ IF ~delivered THEN
           /\ pending' = pending (-) SetToBag({p})
           /\ resp' = Response("send-otp", p.email, <<>>, 500, FALSE, MsgSendFailed)
           /\ otpStore' = StoreDelete(otpStore, p.email)
       ELSE IF server = "mailjs" \/ db THEN
           /\ pending' = (pending (-) SetToBag({p})) (+) SetToBag({[p EXCEPT !.pc = "audit"]})
           /\ resp' = NoResp
           /\ otpStore' = otpStore
       ELSE
           /\ pending' = pending (-) SetToBag({p})
           /\ resp' = Response("send-otp", p.email, <<>>, 200, TRUE, MsgSent)
           /\ otpStore' = otpStore
    /\ sent' = NoMail
    /\ UNCHANGED <<server, db, now, nextSweep, okCount, genVars, csvVars, mailsVars, fbVars, restVars>>

\* /send-otp after await sendMail: rejected -> 500; delivered -> audit write or 200
MailDone(p, delivered) ==
    /\ BagIn(p, pending)
    /\ p.pc = "mail"
    /\ IF ~delivered THEN
           /\ pending' = pending (-) SetToBag({p})
           /\ resp' = Response("send-otp", p.email, <<>>, 500, FALSE, MsgSendFailed)
       ELSE IF server = "mailjs" \/ db THEN
           /\ pending' = (pending (-) SetToBag({p})) (+) SetToBag({[p EXCEPT !.pc = "audit"]})
           /\ resp' = NoResp
       ELSE
           /\ pending' = pending (-) SetToBag({p})
           /\ resp' = Response("send-otp", p.email, <<>>, 200, TRUE, MsgSent)
    /\ sent' = NoMail
    /\ UNCHANGED <<server, db, now, nextSweep, otpStore, okCount, genVars, csvVars, mailsVars, fbVars, restVars>>

\* merged server, /send-otp after await addDoc inside its own try/catch
AuditDone(p, logged) ==
    /\ server = "merged"
    /\ BagIn(p, pending)
    /\ p.pc = "audit"
    /\ pending' = pending (-) SetToBag({p})
    /\ resp' = Response("send-otp", p.email, <<>>, 200, TRUE, MsgSent)
    /\ sent' = NoMail
    /\ UNCHANGED <<server, db, now, nextSweep, otpStore, okCount, genVars, csvVars, mailsVars, fbVars, restVars>>

\* mail.js, /send-otp after await addDoc inside the handler's only try/catch
MailJsAuditDone(p, logged) ==
    /\ server = "mailjs"
    /\ BagIn(p, pending)
    /\ p.pc = "audit"
    /\ pending' = pending (-) SetToBag({p})
    /\ resp' = IF logged
               THEN Response("send-otp", p.email, <<>>, 200, TRUE, MsgSent)
               ELSE Response("send-otp", p.email, <<>>, 500, FALSE, MsgSendFailed)
    /\ sent' = NoMail
    /\ UNCHANGED <<server, db, now, nextSweep, otpStore, okCount, genVars, csvVars, mailsVars, fbVars, restVars>>

\* /verify-otp: synchronous, one step
VerifyOtp(email, otp) ==
    LET out == VerifyHandler(otpStore, now, email, otp) IN
    /\ otpStore' = out.store
    /\ resp' = out.resp
    /\ sent' = NoMail
    /\ okCount' = IF out.resp.success
                  THEN [okCount EXCEPT ![email] = @ + 1]
                  ELSE okCount
    /\ UNCHANGED <<server, db, now, nextSweep, pending, genVars, csvVars, mailsVars, fbVars, restVars>>

\* the setInterval(..., 60 * 1000) callback
Sweep ==
    /\ now >= nextSweep
    /\ otpStore' = SweepStore(otpStore, now)
    /\ nextSweep' = now + SweepPeriod
    /\ resp' = NoResp
    /\ sent' = NoMail
    /\ UNCHANGED <<server, db, now, pending, okCount, genVars, csvVars, mailsVars, fbVars, restVars>>

OtpNext ==
    \/ \E d \in Deltas : Tick(d)
    \/ \E e \in EmailInputs, k \in RandSamples : SendOtpStart(e, k)
    \/ \E p \in BagToSet(pending), ok \in BOOLEAN : MailDone(p, ok)
    \/ \E p \in BagToSet(pending), ok \in BOOLEAN : AuditDone(p, ok)
    \/ \E p \in BagToSet(pending), ok \in BOOLEAN : MailJsAuditDone(p, ok)
    \/ \E e \in EmailInputs, c \in OtpInputs : VerifyOtp(e, c)
    \/ Sweep

SpecOtp == OtpInit /\ [][OtpNext]_vars

----------------------------------------------------------------------------
(* Code generation over the whole range of the random source: /send-otp    *)
(* is run with the draw rnd / RandDen, for every rnd in 0 .. RandDen - 1.   *)

GenInit ==
    /\ rnd \in 0 .. RandDen - 1
    /\ OtpIdle
    /\ CsvIdle
    /\ MailsIdle
    /\ FbIdle
    /\ RestIdle

GenNext == \E e \in Emails : SendOtpStart(e, rnd)

SpecGen == GenInit /\ [][GenNext]_vars

----------------------------------------------------------------------------
(* POST /send-csv: one request, from the upload to the response.  Two copies *)
(* of the handler exist: "sender" (src/unnamed/part_000) and "merged"        *)
(* (src/server.js), which also keeps results.details.                        *)

\* a CSV cell the row does not have (the property reads undefined)
Undefined == "<undefined>"

\* JavaScript truthiness of a cell: undefined and "" are falsy
Truthy(v) == v # Undefined /\ v # ""

\* the recipient rows csv-parser may produce: columns email and Email
Rows == [email : {Undefined, "a@x.com"}, Email : {"", "b@x.com"}]

RowLists == UNION {[1 .. n -> Rows] : n \in 0 .. MaxRows}

\* req.body.delayMs, a string of characters; <<>> stands for a falsy value
\* (the field is absent or empty)
DelayBodies == {<<>>, <<"0">>, <<"-", "5">>, <<"a">>, <<"7", "x">>}

DigitChars == <<"0", "1", "2", "3", "4", "5", "6", "7", "8", "9">>

IsDigit(c) == \E i \in DOMAIN DigitChars : DigitChars[i] = c

DigitValue(c) == (CHOOSE i \in DOMAIN DigitChars : DigitChars[i] = c) - 1

RECURSIVE LeadingDigits(_)
\* the longest prefix of s made of decimal digits
LeadingDigits(s) ==
    IF s = <<>> \/ ~IsDigit(Head(s)) THEN <<>>
    ELSE <<Head(s)>> \o LeadingDigits(Tail(s))

RECURSIVE DigitsValue(_)
DigitsValue(ds) ==
    IF ds = <<>> THEN 0
    ELSE 10 * DigitsValue(SubSeq(ds, 1, Len(ds) - 1)) + DigitValue(ds[Len(ds)])

NaN == [nan |-> TRUE, value |-> 0]

\* parseInt(s, 10) on a string without white space: an optional sign, then
\* the leading digits; NaN when there is no digit
ParseInt(s) ==
    LET signed == s # <<>> /\ Head(s) \in {"-", "+"}
        ds == LeadingDigits(IF signed THEN Tail(s) ELSE s)
    IN  IF ds = <<>> THEN NaN
        ELSE [nan |-> FALSE,
              value |-> IF signed /\ Head(s) = "-" THEN 0 - DigitsValue(ds)
                        ELSE DigitsValue(ds)]

\* const delayMs = parseInt(req.body.delayMs || "300", 10)
DelayMs(r) ==
    ParseInt(IF r.delayMs = <<>> THEN <<"3", "0", "0">> ELSE r.delayMs)

\* a mutation: every delayMs that parses to a number paces the loop
IsPositive_AnyNumber(d) == ~d.nan

\* delayMs > 0, which is false for NaN
IsPositive(d) == ~d.nan /\ d.value > 0

\* how reading the uploaded CSV goes: "end" on the parser, "error" on the
\* parser (csvParser()), or "error" on the file stream (fs.createReadStream)
StreamCases == {"ok", "parseError", "readError"}

\* an uploaded logo or banner, given by the type pickImageMime detects for it
ImageUploads == {"none", "image/png", "image/webp"}

\* /^image\/(png|jpe?g|gif)$/i.test(detected)
IsSupported(detected) == detected \in {"image/png", "image/jpg", "image/jpeg", "image/gif"}

\* file.originalname of the two inline uploads
OriginalName(label) == IF label = "logo" THEN "logo-upload" ELSE "banner-upload"

\* if (!logoUrl && req.files.logoFile): the upload is prepared only without a URL
Prepared(url, upload) == ~url /\ upload # "none"

\* some uploaded inline image of r is not of a supported type
HasUnsupported(r) ==
    \/ r.logoFile # "none" /\ ~IsSupported(r.logoFile)
    \/ r.bannerFile # "none" /\ ~IsSupported(r.bannerFile)

NoImages(r) ==
    /\ ~r.logoUrl /\ ~r.bannerUrl
    /\ r.logoFile = "none" /\ r.bannerFile = "none"

\* sharpOk: whether import("sharp") and the conversion to png succeed
CsvRequests ==
    {r \in [variant : {"sender", "merged"}, hasCsv : BOOLEAN, subject : BOOLEAN,
            html : BOOLEAN, stream : StreamCases, rows : RowLists,
            logoUrl : BOOLEAN, logoFile : ImageUploads,
            bannerUrl : BOOLEAN, bannerFile : ImageUploads,
            sharpOk : BOOLEAN, delayMs : DelayBodies, attachment : BOOLEAN] :
        /\ r.variant = "sender" => ~r.attachment
        /\ ~(r.hasCsv /\ r.subject /\ r.html /\ r.stream = "ok") => r.rows = <<>>
        /\ r.rows = <<>> => r.delayMs = <<"0">>
        /\ Len(r.rows) > MaxImageRows => NoImages(r)
        /\ ~HasUnsupported(r) => r.sharpOk}

\* const email = r.email || r.Email
ResolveEmail(r) == IF Truthy(r.email) THEN r.email ELSE r.Email

\* const results = { sent: 0, failed: 0, failures: [], details: [] }
\* (the sender copy has no details; the field then stays empty)
NewResults == [sent |-> 0, failed |-> 0, failures |-> <<>>, details |-> <<>>]

\* try branch after sendMail: results.sent += 1 (and details.push in merged)
RecordSent(variant, res, email) ==
    [res EXCEPT !.sent = @ + 1,
                !.details = IF variant = "merged"
                            THEN Append(@, [email |-> email, status |-> "sent"])
                            ELSE @]

\* a mutation: the failure is counted but not appended to results.failures
RecordFailure_NoPush(variant, res, email, err) ==
    [res EXCEPT !.failed = @ + 1]

\* catch branch: results.failed += 1; results.failures.push({ email, error })
RecordFailure(variant, res, email, err) ==
    [res EXCEPT !.failed = @ + 1,
                !.failures = Append(@, [email |-> email, error |-> err]),
                !.details = IF variant = "merged"
                            THEN Append(@, [email |-> email, status |-> "failed"])
                            ELSE @]

CsvError(status, msg) ==
    [status |-> status, success |-> FALSE, error |-> msg, summary |-> NewResults]

\* a mutation: a batch in which nothing was delivered is answered with a 500
CsvSuccess_ErrorWhenNoneSent(res) ==
    IF res.sent = 0 /\ res.failed > 0
    THEN [status |-> 500, success |-> FALSE, error |-> "Internal server error", summary |-> res]
    ELSE [status |-> 200, success |-> TRUE, error |-> "", summary |-> res]

\* res.json({ success: true, summary: results })
CsvSuccess(res) ==
    [status |-> 200, success |-> TRUE, error |-> "", summary |-> res]

\* `Inline image "${filename}" has unsupported type (${detected}). Install ...`
UnsupportedMsg(filename, detected) ==
    "Inline image \"" \o filename \o "\" has unsupported type (" \o detected
        \o "). Install 'sharp' or upload PNG/JPG/GIF."

\* a mutation: without the transcode the image is attached as it was uploaded
ProcessInlineImage_AsUploaded(label, detected, sharpOk) ==
    [ok |-> TRUE, filename |-> OriginalName(label),
     contentType |-> IF IsSupported(detected) \/ ~sharpOk THEN detected ELSE "image/png"]

\* processInlineImage(file, cid, label): the attachment, or the thrown error
ProcessInlineImage(label, detected, sharpOk) ==
    IF IsSupported(detected) THEN
        [ok |-> TRUE, filename |-> OriginalName(label), contentType |-> detected]
    ELSE IF sharpOk THEN
        [ok |-> TRUE, filename |-> OriginalName(label) \o ".png", contentType |-> "image/png"]
    ELSE
        [ok |-> FALSE, error |-> UnsupportedMsg(OriginalName(label), detected)]

\* the logo step, then the banner step: the first error thrown, or "" if none
PrepareImages(r) ==
    LET logo == ProcessInlineImage("logo", r.logoFile, r.sharpOk)
        banner == ProcessInlineImage("banner", r.bannerFile, r.sharpOk)
    IN  IF Prepared(r.logoUrl, r.logoFile) /\ ~logo.ok THEN logo.error
        ELSE IF Prepared(r.bannerUrl, r.bannerFile) /\ ~banner.ok THEN banner.error
        ELSE ""

\* const logoCid = `logo-${Date.now()}`; const bannerCid = `banner-${Date.now()}`
ContentId(label, t) == <<label, t>>

\* the attachment made of an uploaded image: the prepared image and its cid
InlineAttachment(label, detected, sharpOk, t) ==
    LET a == ProcessInlineImage(label, detected, sharpOk)
    IN  [filename |-> a.filename, contentType |-> a.contentType, cid |-> ContentId(label, t)]

\* the array attachments after the logo step and the banner step
InlineAttachments(r, t) ==
    (IF Prepared(r.logoUrl, r.logoFile)
     THEN <<InlineAttachment("logo", r.logoFile, r.sharpOk, t)>> ELSE <<>>)
    \o (IF Prepared(r.bannerUrl, r.bannerFile)
        THEN <<InlineAttachment("banner", r.bannerFile, r.sharpOk, t)>> ELSE <<>>)

\* the <img> block put in front of (logo) or behind (banner) the HTML body:
\*   ${logoUrl ? `<img src="${logoUrl}" ...>` :
\*       (req.files.logoFile ? `<img src="cid:${logoCid}" ...>` : "")}
\* in the sender copy; the merged copy sends the HTML body with no such block
ImageBlock(variant, label, url, upload, t) ==
    IF variant = "merged" THEN [src |-> "none"]
    ELSE IF url THEN [src |-> "url"]
    ELSE IF upload # "none" THEN [src |-> "cid", cid |-> ContentId(label, t)]
    ELSE [src |-> "none"]

\* an attachment without a content-id
NoCid == <<>>

\* attachments.map((a) => ({ filename, content: Buffer.from(a.content), cid,
\* contentType })) in iteration i: a new object literal and a new buffer for
\* the k-th prepared image (its content is always a Buffer)
CopyForSend(a, i, k) ==
    [filename |-> a.filename, contentType |-> a.contentType, cid |-> a.cid,
     object |-> <<"literal", i, k>>, content |-> <<"Buffer.from", i, k>>]

\* genericAttachments: one object { filename, path, contentType } per upload
\* in the attachments field, made once, before the loop (merged copy only)
GenericAttachments(r) ==
    IF r.variant = "merged" /\ r.attachment
    THEN << [filename |-> "attachment", contentType |-> "application/pdf",
             cid |-> NoCid,
             object |-> <<"generic", 0, 1>>, content |-> <<"path", 0, 1>>] >>
    ELSE <<>>

\* the list passed to sendMail in iteration i: the copies of the inline
\* attachments, then [...genericAttachments], which copies references
AttachmentsForSend(r, i, t) ==
    LET prepared == InlineAttachments(r, t) IN
    [k \in DOMAIN prepared |-> CopyForSend(prepared[k], i, k)]
        \o GenericAttachments(r)

\* the argument of sendMail for row i
MessageFor(r, i) ==
    [to |-> ResolveEmail(r.rows[i]),
     logo |-> ImageBlock(r.variant, "logo", r.logoUrl, r.logoFile, now),
     banner |-> ImageBlock(r.variant, "banner", r.bannerUrl, r.bannerFile, now),
     attachments |-> AttachmentsForSend(r, i, now)]

\* the files multer stored for the request
UploadedFiles(r) ==
    (IF r.hasCsv THEN {"csvFile"} ELSE {})
    \cup (IF r.logoFile # "none" THEN {"logoFile"} ELSE {})
    \cup (IF r.bannerFile # "none" THEN {"bannerFile"} ELSE {})
    \cup (IF r.attachment THEN {"attachments"} ELSE {})

CsvInit ==
    /\ csvReq \in CsvRequests
    /\ csvPc = "start"
    /\ csvIdx = 0
    /\ results = NewResults
    /\ attempts = <<>>
    /\ files = UploadedFiles(csvReq)
    /\ csvResp = NoResp
    /\ csvMail = NoMail
    /\ delays = <<>>
    /\ unlinks = {}
    /\ OtpIdle
    /\ GenIdle
    /\ MailsIdle
    /\ FbIdle
    /\ RestIdle

\* a mutation: subject and html are checked before the upload
CsvStart_SubjectFirst ==
    /\ csvPc = "start"
    /\ IF ~csvReq.subject \/ ~csvReq.html THEN
           /\ files' = files \ {"csvFile"}
           /\ csvResp' = CsvError(400, "Missing subject or HTML body.")
           /\ csvPc' = "done"
       ELSE IF ~csvReq.hasCsv THEN
           /\ csvResp' = CsvError(400, "CSV file is required.")
           /\ csvPc' = "done"
           /\ UNCHANGED files
       ELSE
           /\ csvPc' = "parsing"
           /\ UNCHANGED <<files, csvResp>>
    /\ UNCHANGED <<csvReq, delays, unlinks, csvMail, csvIdx, results, attempts, otpVars, genVars, mailsVars, fbVars, restVars>>

\* validation of the upload and of subject/html, up to the await on the CSV stream
CsvStart ==
    /\ csvPc = "start"
    /\ IF ~csvReq.hasCsv THEN
           /\ csvResp' = CsvError(400, "CSV file is required.")
           /\ csvPc' = "done"
           /\ UNCHANGED files
       ELSE IF ~csvReq.subject \/ ~csvReq.html THEN
           /\ files' = files \ {"csvFile"}
           /\ csvResp' = CsvError(400, "Missing subject or HTML body.")
           /\ csvPc' = "done"
       ELSE
           /\ csvPc' = "parsing"
           /\ UNCHANGED <<files, csvResp>>
    /\ UNCHANGED <<csvReq, delays, unlinks, csvMail, csvIdx, results, attempts, otpVars, genVars, mailsVars, fbVars, restVars>>

\* a mutation: the recipient check counts the rows that have an email
CsvParsed_UsableRows ==
    /\ csvPc = "parsing"
    /\ IF csvReq.stream = "readError" THEN
           /\ csvPc' = "crashed"
           /\ UNCHANGED <<files, csvResp, csvIdx>>
       ELSE IF csvReq.stream = "parseError" THEN
           /\ csvResp' = CsvError(500, "Internal server error")
           /\ csvPc' = "done"
           /\ UNCHANGED <<files, csvIdx>>
       ELSE IF \A i \in DOMAIN csvReq.rows :
                  ~Truthy(ResolveEmail(csvReq.rows[i])) THEN
           /\ files' = files \ {"csvFile"}
           /\ csvResp' = CsvError(400, "No recipients found in CSV.")
           /\ csvPc' = "done"
           /\ UNCHANGED csvIdx
       ELSE IF Prepared(csvReq.logoUrl, csvReq.logoFile)
               \/ Prepared(csvReq.bannerUrl, csvReq.bannerFile) THEN
           /\ csvPc' = "images"
           /\ UNCHANGED <<files, csvResp, csvIdx>>
       ELSE
           /\ csvPc' = "loop"
           /\ csvIdx' = 1
           /\ UNCHANGED <<files, csvResp>>
    /\ UNCHANGED <<csvReq, delays, unlinks, csvMail, results, attempts, otpVars, genVars, mailsVars, fbVars, restVars>>

\* the CSV stream ended or failed (the promise has a listener for the parser's
\* "error" only; an "error" of the file stream has none, and nothing answers);
\* then the recipient check and the image step
CsvParsed ==
    /\ csvPc = "parsing"
    /\ IF csvReq.stream = "readError" THEN
           /\ csvPc' = "crashed"
           /\ UNCHANGED <<files, csvResp, csvIdx>>
       ELSE IF csvReq.stream = "parseError" THEN
           /\ csvResp' = CsvError(500, "Internal server error")
           /\ csvPc' = "done"
           /\ UNCHANGED <<files, csvIdx>>
       ELSE IF Len(csvReq.rows) = 0 THEN
           /\ files' = files \ {"csvFile"}
           /\ csvResp' = CsvError(400, "No recipients found in CSV.")
           /\ csvPc' = "done"
           /\ UNCHANGED csvIdx
       ELSE IF Prepared(csvReq.logoUrl, csvReq.logoFile)
               \/ Prepared(csvReq.bannerUrl, csvReq.bannerFile) THEN
           /\ csvPc' = "images"
           /\ UNCHANGED <<files, csvResp, csvIdx>>
       ELSE
           /\ csvPc' = "loop"
           /\ csvIdx' = 1
           /\ UNCHANGED <<files, csvResp>>
    /\ UNCHANGED <<csvReq, delays, unlinks, csvMail, results, attempts, otpVars, genVars, mailsVars, fbVars, restVars>>

\* await processInlineImage(...) for the logo and the banner: returned or threw
CsvImages ==
    /\ csvPc = "images"
    /\ IF PrepareImages(csvReq) # "" THEN
           /\ csvResp' = CsvError(400, PrepareImages(csvReq))
           /\ csvPc' = "done"
           /\ UNCHANGED csvIdx
       ELSE
           /\ csvPc' = "loop"
           /\ csvIdx' = 1
           /\ UNCHANGED csvResp
    /\ UNCHANGED <<csvReq, delays, unlinks, csvMail, results, attempts, files, otpVars, genVars, mailsVars, fbVars, restVars>>

\* head of one loop iteration: resolve the email, skip the row or call sendMail
CsvIterate ==
    /\ csvPc = "loop"
    /\ csvIdx <= Len(csvReq.rows)
    /\ IF ~Truthy(ResolveEmail(csvReq.rows[csvIdx])) THEN
           /\ csvIdx' = csvIdx + 1
           /\ UNCHANGED <<csvPc, attempts, csvMail>>
       ELSE
           /\ csvPc' = "sending"
           /\ attempts' = Append(attempts, csvIdx)
           /\ csvMail' = MessageFor(csvReq, csvIdx)
           /\ UNCHANGED csvIdx
    /\ UNCHANGED <<csvReq, delays, unlinks, results, files, csvResp, otpVars, genVars, mailsVars, fbVars, restVars>>

\* sendMail resolved or rejected: count it, then delay or go on
CsvSendDone(ok) ==
    /\ csvPc = "sending"
    /\ LET email == ResolveEmail(csvReq.rows[csvIdx]) IN
       results' = IF ok THEN RecordSent(csvReq.variant, results, email)
                  ELSE RecordFailure(csvReq.variant, results, email, "send failed")
    /\ IF IsPositive(DelayMs(csvReq)) THEN
           /\ csvPc' = "delaying"
           /\ UNCHANGED csvIdx
       ELSE
           /\ csvPc' = "loop"
           /\ csvIdx' = csvIdx + 1
    /\ UNCHANGED <<csvReq, delays, unlinks, csvMail, attempts, files, csvResp, otpVars, genVars, mailsVars, fbVars, restVars>>

\* await delay(delayMs) is over
CsvDelayDone ==
    /\ csvPc = "delaying"
    /\ delays' = Append(delays, DelayMs(csvReq).value)
    /\ csvPc' = "loop"
    /\ csvIdx' = csvIdx + 1
    /\ UNCHANGED <<csvReq, unlinks, csvMail, results, attempts, files, csvResp, otpVars, genVars, mailsVars, fbVars, restVars>>

\* a mutation: the first unlinkSync that throws ends the cleanup
Cleanup_StopOnError(r, onDisk, failing) ==
    IF failing = {}
    THEN [unlinked |-> UploadedFiles(r), remaining |-> {}]
    ELSE [unlinked |-> failing, remaining |-> onDisk]

\* Object.values(req.files).forEach(... try { fs.unlinkSync(file.path) }
\* catch (e) { log unless ENOENT }): unlinkSync is called on every uploaded
\* file; those in failing throw and stay on disk
Cleanup(r, onDisk, failing) ==
    [unlinked |-> UploadedFiles(r), remaining |-> onDisk \cap failing]

\* after the loop: remove the uploaded files, answer with the summary
CsvFinish ==
    /\ csvPc = "loop"
    /\ csvIdx > Len(csvReq.rows)
    /\ \E failing \in SUBSET files :
           /\ files' = Cleanup(csvReq, files, failing).remaining
           /\ unlinks' = Cleanup(csvReq, files, failing).unlinked
    /\ csvResp' = CsvSuccess(results)
    /\ csvPc' = "done"
    /\ UNCHANGED <<csvReq, delays, csvMail, csvIdx, results, attempts, otpVars, genVars, mailsVars, fbVars, restVars>>

CsvNext ==
    \/ CsvStart
    \/ CsvParsed
    \/ CsvImages
    \/ CsvIterate
    \/ \E ok \in BOOLEAN : CsvSendDone(ok)
    \/ CsvDelayDone
    \/ CsvFinish

SpecCsv == CsvInit /\ [][CsvNext]_vars

----------------------------------------------------------------------------
(* POST /send-mails: one request, from the upload to the response.  The two  *)
(* copies of the handler (src/server.js and src/unnamed/part_000) differ      *)
(* only in the transporter they use.                                           *)

\* the request: the upload, the two body fields, whether the CSV stream reads
\* to its end, and the rows it then yields
MailsRequests ==
    {r \in [hasFile : BOOLEAN, subject : BOOLEAN, html : BOOLEAN,
            streamOk : BOOLEAN, rows : RowLists] :
        ~(r.hasFile /\ r.streamOk) => r.rows = <<>>}

MailsError(status, msg) ==
    [status |-> status, success |-> FALSE, error |-> msg, count |-> 0]

\* a mutation: the message counts the rows that have an email
MailsSuccess_EmailRows(recipients) ==
    [status |-> 200, success |-> TRUE, error |-> "",
     count |-> Len(SelectSeq(recipients, LAMBDA row : Truthy(ResolveEmail(row))))]

\* res.json({ success: true, message: `Sent ${recipients.length} emails successfully.` })
MailsSuccess(recipients) ==
    [status |-> 200, success |-> TRUE, error |-> "", count |-> Len(recipients)]

MailsInit ==
    /\ mailsReq \in MailsRequests
    /\ mailsPc = "start"
    /\ mailsIdx = 0
    /\ mailsAttempts = <<>>
    /\ mailsFailed = <<>>
    /\ mailsFile = mailsReq.hasFile
    /\ mailsResp = NoResp
    /\ OtpQuiet
    /\ db \in BOOLEAN
    /\ GenIdle
    /\ CsvIdle
    /\ FbIdle
    /\ RestIdle

\* the synchronous part: req.file.path (a TypeError without an upload, caught by
\* the handler's catch), then the stream is set up and the handler returns
MailsStart ==
    /\ mailsPc = "start"
    /\ IF ~mailsReq.hasFile THEN
           /\ mailsResp' = MailsError(500, "Failed to send emails")
           /\ mailsPc' = "done"
       ELSE
           /\ mailsPc' = "reading"
           /\ UNCHANGED mailsResp
    /\ UNCHANGED <<mailsReq, mailsIdx, mailsAttempts, mailsFailed, mailsFile,
                   otpVars, genVars, csvVars, fbVars, restVars>>

\* the "end" callback up to the loop: subject and html are checked here
MailsStreamEnd ==
    /\ mailsPc = "reading"
    /\ mailsReq.streamOk
    /\ IF ~mailsReq.subject \/ ~mailsReq.html THEN
           /\ mailsFile' = FALSE
           /\ mailsResp' = MailsError(400, "Missing subject or HTML content.")
           /\ mailsPc' = "done"
           /\ UNCHANGED mailsIdx
       ELSE
           /\ mailsPc' = "loop"
           /\ mailsIdx' = 1
           /\ UNCHANGED <<mailsFile, mailsResp>>
    /\ UNCHANGED <<mailsReq, mailsAttempts, mailsFailed, otpVars, genVars, csvVars, fbVars, restVars>>

\* the stream emits "error": no listener is registered for it, "end" never
\* comes, and the handler's try block was left long ago; nothing answers
MailsStreamError ==
    /\ mailsPc = "reading"
    /\ ~mailsReq.streamOk
    /\ mailsPc' = "crashed"
    /\ UNCHANGED <<mailsReq, mailsIdx, mailsAttempts, mailsFailed, mailsFile, mailsResp,
                   otpVars, genVars, csvVars, fbVars, restVars>>

\* head of one loop iteration: if (!email) continue; else sendMail is called
MailsIterate ==
    /\ mailsPc = "loop"
    /\ mailsIdx <= Len(mailsReq.rows)
    /\ IF ~Truthy(ResolveEmail(mailsReq.rows[mailsIdx])) THEN
           /\ mailsIdx' = mailsIdx + 1
           /\ UNCHANGED <<mailsPc, mailsAttempts>>
       ELSE
           /\ mailsPc' = "sending"
           /\ mailsAttempts' = Append(mailsAttempts, mailsIdx)
           /\ UNCHANGED mailsIdx
    /\ UNCHANGED <<mailsReq, mailsFailed, mailsFile, mailsResp,
                   otpVars, genVars, csvVars, fbVars, restVars>>

\* sendMail resolved (then the Firestore record, if db) or rejected (console.error only)
MailsSendDone(ok) ==
    /\ mailsPc = "sending"
    /\ IF ok /\ db THEN
           /\ mailsPc' = "logging"
           /\ UNCHANGED <<mailsIdx, mailsFailed>>
       ELSE
           /\ mailsPc' = "loop"
           /\ mailsIdx' = mailsIdx + 1
           /\ mailsFailed' = IF ok THEN mailsFailed
                             ELSE Append(mailsFailed, ResolveEmail(mailsReq.rows[mailsIdx]))
    /\ UNCHANGED <<mailsReq, mailsAttempts, mailsFile, mailsResp,
                   otpVars, genVars, csvVars, fbVars, restVars>>

\* addDoc resolved or rejected (console.warn only)
MailsAuditDone(logged) ==
    /\ mailsPc = "logging"
    /\ mailsPc' = "loop"
    /\ mailsIdx' = mailsIdx + 1
    /\ UNCHANGED <<mailsReq, mailsAttempts, mailsFailed, mailsFile, mailsResp,
                   otpVars, genVars, csvVars, fbVars, restVars>>

\* after the loop: unlink the CSV, answer with the number of rows
MailsFinish ==
    /\ mailsPc = "loop"
    /\ mailsIdx > Len(mailsReq.rows)
    /\ mailsFile' = FALSE
    /\ mailsResp' = MailsSuccess(mailsReq.rows)
    /\ mailsPc' = "done"
    /\ UNCHANGED <<mailsReq, mailsIdx, mailsAttempts, mailsFailed,
                   otpVars, genVars, csvVars, fbVars, restVars>>

MailsNext ==
    \/ MailsStart
    \/ MailsStreamEnd
    \/ MailsStreamError
    \/ MailsIterate
    \/ \E ok \in BOOLEAN : MailsSendDone(ok)
    \/ \E logged \in BOOLEAN : MailsAuditDone(logged)
    \/ MailsFinish

SpecMails == MailsInit /\ [][MailsNext]_vars

----------------------------------------------------------------------------
(* fetchWithBackoff(url, payload, maxRetries = 5): one call.  The three      *)
(* copies of the function (src/server.js twice, src/unnamed/part_000) differ  *)
(* only in the texts of their messages.                                       *)

\* response.status of the responses the endpoint may give
Statuses == {200, 299, 400, 403, 429, 500, 599}

\* response.ok
IsOk(status) == status >= 200 /\ status <= 299

\* response.status === 429 || (response.status >= 500 && response.status < 600)
IsRetryable(status) == status = 429 \/ (status >= 500 /\ status < 600)

\* what one fetch() comes to: the promise rejects (a network failure), or it
\* resolves to a response, whose body response.json() parses or not
NetworkFailure == [kind |-> "network", status |-> 0, bodyOk |-> FALSE]
NoOutcome == [kind |-> "none", status |-> 0, bodyOk |-> FALSE]
Outcomes ==
    {NetworkFailure} \cup [kind : {"response"}, status : Statuses, bodyOk : BOOLEAN]

\* return await response.json(): the parsed body of response o
Returned(o) == [kind |-> "returned", error |-> "", of |-> o]

\* an error leaves the function; of is the response whose body it carries
Thrown(error, o) == [kind |-> "thrown", error |-> error, of |-> o]

\* the error raised inside the try block for outcome o
\* (new Error(JSON.stringify(errorData)), errorData the body or the fallback object)
RaisedFor(o) ==
    IF o.kind = "network" THEN Thrown("fetch failed", NoOutcome)
    ELSE IF IsOk(o.status) THEN Thrown("invalid json", NoOutcome)
    ELSE IF o.bodyOk THEN Thrown("error body", o)
    ELSE Thrown("Unknown error", NoOutcome)

FbInit ==
    /\ maxRetries \in 1 .. DefaultMaxRetries
    /\ fbPc = "called"
    /\ attempt = 0
    /\ backoffTime = InitialBackoff
    /\ fbRequests = 0
    /\ fbWaits = <<>>
    /\ fbLast = NoOutcome
    /\ fbResult = [none |-> TRUE]
    /\ OtpIdle
    /\ GenIdle
    /\ CsvIdle
    /\ MailsIdle
    /\ RestIdle

\* while (attempt < maxRetries), attempt being n: fetch() is called, or the
\* loop is left and the final error is thrown
LoopHead(n) ==
    IF n < maxRetries THEN
        /\ fbRequests' = fbRequests + 1
        /\ fbPc' = "fetching"
        /\ UNCHANGED fbResult
    ELSE
        /\ fbPc' = "thrown"
        /\ fbResult' = Thrown("Failed after max retries", NoOutcome)
        /\ UNCHANGED fbRequests

\* await delay(backoffTime) begins
StartDelay ==
    /\ fbWaits' = Append(fbWaits, backoffTime)
    /\ fbPc' = "delaying"
    /\ UNCHANGED <<fbResult, fbRequests>>

\* a mutation: the catch block delays and retries on the last attempt as well
Catch_AlwaysDelay(e) == StartDelay

\* catch (error): rethrown on the last attempt, else a delay and a retry
Catch(e) ==
    IF attempt >= maxRetries - 1 THEN
        /\ fbPc' = "thrown"
        /\ fbResult' = e
        /\ UNCHANGED <<fbWaits, fbRequests>>
    ELSE StartDelay

\* the function is entered
FbCall ==
    /\ fbPc = "called"
    /\ LoopHead(attempt)
    /\ UNCHANGED <<maxRetries, attempt, backoffTime, fbWaits, fbLast,
                   otpVars, genVars, csvVars, mailsVars, restVars>>

\* a mutation: a 2xx response is not returned but retried like a 5xx
FbSettled_RetryOk(o) ==
    /\ fbPc = "fetching"
    /\ fbLast' = o
    /\ IF o.kind = "response" /\ (IsRetryable(o.status) \/ IsOk(o.status)) THEN StartDelay
       ELSE Catch(RaisedFor(o))
    /\ UNCHANGED <<maxRetries, attempt, backoffTime, otpVars, genVars, csvVars, mailsVars, restVars>>

\* await fetch(...) settled with outcome o; the rest of the try block, and the
\* catch block if something is raised in it
FbSettled(o) ==
    /\ fbPc = "fetching"
    /\ fbLast' = o
    /\ IF o.kind = "response" /\ IsOk(o.status) /\ o.bodyOk THEN
           /\ fbPc' = "returned"
           /\ fbResult' = Returned(o)
           /\ UNCHANGED <<fbWaits, fbRequests>>
       ELSE IF o.kind = "response" /\ IsRetryable(o.status) THEN StartDelay
       ELSE Catch(RaisedFor(o))
    /\ UNCHANGED <<maxRetries, attempt, backoffTime, otpVars, genVars, csvVars, mailsVars, restVars>>

\* a mutation: the delay is not doubled
NextBackoff_Constant(t) == t

\* backoffTime *= 2
NextBackoff(t) == 2 * t

\* await delay(backoffTime) is over: backoffTime *= 2; attempt++; the loop test
FbDelayDone ==
    /\ fbPc = "delaying"
    /\ backoffTime' = NextBackoff(backoffTime)
    /\ attempt' = attempt + 1
    /\ LoopHead(attempt + 1)
    /\ UNCHANGED <<maxRetries, fbWaits, fbLast, otpVars, genVars, csvVars, mailsVars, restVars>>

FbNext ==
    \/ FbCall
    \/ \E o \in Outcomes : FbSettled(o)
    \/ FbDelayDone

\* every promise awaited by the call settles: fetch() resolves or rejects,
\* the timer of delay() fires
SpecFetch == FbInit /\ [][FbNext]_vars /\ WF_vars(FbNext)

----------------------------------------------------------------------------
(* Personalization: html.replace(/\[Name\]/g, name), with the name resolved   *)
(* from the row.  Texts are sequences of symbols; the four letters of "Name"  *)
(* are one symbol, so that the token [Name] is three symbols long.            *)

\* the token [Name]
Token == <<"[", "Name", "]">>

\* the symbols of an HTML body and of a name cell
HtmlSymbols == {"[", "Name", "]", "x"}
NameSymbols == {"$", "&", "x"}

SeqsUpTo(S, n) == UNION {[1 .. k -> S] : k \in 0 .. n}

\* the HTML bodies; the name cells: short texts, and the token itself
HtmlBodies == SeqsUpTo(HtmlSymbols, MaxHtmlLen)
NameCells == SeqsUpTo(NameSymbols, MaxNameLen) \cup {Token}

\* the rows: the columns name and Name (a missing column reads undefined,
\* which is falsy like the empty cell <<>>)
NameRows == [name : NameCells, Name : {<<>>, <<"x">>}]

\* the default of the handler: "" in /send-csv, "User" in /send-mails
DefaultName(handler) == IF handler = "send-mails" THEN <<"User">> ELSE <<>>

\* r.name || r.Name || ""      (rec.name || rec.Name || "User")
ResolveName(handler, r) ==
    IF r.name # <<>> THEN r.name
    ELSE IF r.Name # <<>> THEN r.Name
    ELSE DefaultName(handler)

RECURSIVE Expand(_, _)
\* the text a replacement string stands for (GetSubstitution): $$ is a dollar
\* sign, $& the matched text, any other symbol itself; the regular expression
\* has no groups, and the symbols ` and ' are not among NameSymbols
Expand(replacement, matched) ==
    IF replacement = <<>> THEN <<>>
    ELSE IF Len(replacement) >= 2 /\ replacement[1] = "$" /\ replacement[2] = "$"
        THEN <<"$">> \o Expand(SubSeq(replacement, 3, Len(replacement)), matched)
    ELSE IF Len(replacement) >= 2 /\ replacement[1] = "$" /\ replacement[2] = "&"
        THEN matched \o Expand(SubSeq(replacement, 3, Len(replacement)), matched)
    ELSE <<Head(replacement)>> \o Expand(Tail(replacement), matched)

RECURSIVE ReplaceToken(_, _)
\* html.replace(/\[Name\]/g, name): the matches are found from left to right
\* in html, and each is replaced by what name stands for
ReplaceToken(html, name) ==
    IF html = <<>> THEN <<>>
    ELSE IF Len(html) >= Len(Token) /\ SubSeq(html, 1, Len(Token)) = Token
        THEN Expand(name, Token) \o ReplaceToken(SubSeq(html, Len(Token) + 1, Len(html)), name)
    ELSE <<Head(html)>> \o ReplaceToken(Tail(html), name)

NoValue == [none |-> TRUE]

PersonalizeInit ==
    /\ pureCall \in [fn : {"personalize"}, handler : {"send-csv", "send-mails"},
                     html : HtmlBodies, row : NameRows]
    /\ pureRet = NoValue
    /\ OtpIdle /\ GenIdle /\ CsvIdle /\ MailsIdle /\ FbIdle /\ GeIdle /\ StartIdle

\* const personalizedHtml = html.replace(/\[Name\]/g, name)
Personalize ==
    /\ pureCall.fn = "personalize"
    /\ pureRet = NoValue
    /\ pureRet' = [value |-> ReplaceToken(pureCall.html,
                                          ResolveName(pureCall.handler, pureCall.row)),
                   times |-> 1]
    /\ UNCHANGED <<pureCall, otpVars, genVars, csvVars, mailsVars, fbVars, geVars, startVars>>

\* the substitution applied to its own result, with the same name
PersonalizeAgain ==
    /\ pureCall.fn = "personalize"
    /\ pureRet # NoValue
    /\ pureRet.times = 1
    /\ pureRet' = [value |-> ReplaceToken(pureRet.value,
                                          ResolveName(pureCall.handler, pureCall.row)),
                   times |-> 2]
    /\ UNCHANGED <<pureCall, otpVars, genVars, csvVars, mailsVars, fbVars, geVars, startVars>>

PersonalizeNext == Personalize \/ PersonalizeAgain

SpecPersonalize == PersonalizeInit /\ [][PersonalizeNext]_vars

----------------------------------------------------------------------------
(* normalizeImageUrl(url).  A URL is given by what new URL(url) makes of it:  *)
(* whether it parses, its scheme, the labels of its hostname, the segments    *)
(* of its pathname and the pairs of its query string.                         *)

\* file identifiers of the drive (letters, digits, - and _ only)
FileIds == {"id1", "id2"}

DriveHost == <<"drive", "google", "com">>

Hosts ==
    {DriveHost, <<"example", "com">>, <<"docs", "google", "com">>,
     <<"drive", "google", "com", "example", "net">>}

Paths ==
    {<<"file", "d", i, "view">> : i \in FileIds}
    \cup {<<"open">>, <<"uc">>, <<"file", "d">>, <<"logo.png">>}

Param(k, v) == [key |-> k, value |-> v]

Queries ==
    {<<>>, <<Param("usp", "sharing")>>, <<Param("id", "")>>}
    \cup {<<Param("id", i)>> : i \in FileIds}
    \cup {<<Param("export", "download"), Param("id", i)>> : i \in FileIds}

Urls == [wellFormed : BOOLEAN, scheme : {"http", "https"}, hostname : Hosts,
         pathname : Paths, query : Queries]

\* a.includes(b), for texts made of whole labels
Includes(a, b) ==
    \E i \in 1 .. Len(a) - Len(b) + 1 : SubSeq(a, i, i + Len(b) - 1) = b

\* u.pathname.match(/\/d\/([^/]+)/): the segment after the first segment "d",
\* or "" when there is no match
PathId(pathname) ==
    LET hits == {i \in 1 .. Len(pathname) - 1 : pathname[i] = "d"}
    IN  IF hits = {} THEN ""
        ELSE pathname[(CHOOSE i \in hits : \A j \in hits : i <= j) + 1]

\* u.searchParams.get("id"): the value of the first pair with key id, or ""
\* when there is none (null and "" are both falsy)
QueryId(query) ==
    LET hits == {i \in 1 .. Len(query) : query[i].key = "id"}
    IN  IF hits = {} THEN ""
        ELSE query[CHOOSE i \in hits : \A j \in hits : i <= j].value

\* `https://drive.google.com/uc?export=view&id=${id}`
DirectView(id) ==
    [wellFormed |-> TRUE, scheme |-> "https", hostname |-> DriveHost,
     pathname |-> <<"uc">>, query |-> <<Param("export", "view"), Param("id", id)>>]

\* normalizeImageUrl: new URL(url) throws on a malformed url, and the catch
\* returns url
NormalizeImageUrl(url) ==
    IF ~url.wellFormed THEN url
    ELSE LET isDrive == Includes(url.hostname, DriveHost)
             id == IF PathId(url.pathname) # "" THEN PathId(url.pathname)
                   ELSE QueryId(url.query)
         IN  IF isDrive /\ id # "" THEN DirectView(id) ELSE url

NormalizeInit ==
    /\ pureCall \in [fn : {"normalizeImageUrl"}, url : Urls]
    /\ pureRet = NoValue
    /\ OtpIdle /\ GenIdle /\ CsvIdle /\ MailsIdle /\ FbIdle /\ GeIdle /\ StartIdle

\* const logoUrl = logoUrlRaw ? normalizeImageUrl(logoUrlRaw) : ""
Normalize ==
    /\ pureCall.fn = "normalizeImageUrl"
    /\ pureRet = NoValue
    /\ pureRet' = [value |-> NormalizeImageUrl(pureCall.url)]
    /\ UNCHANGED <<pureCall, otpVars, genVars, csvVars, mailsVars, fbVars, geVars, startVars>>

SpecNormalize == NormalizeInit /\ [][Normalize]_vars

----------------------------------------------------------------------------
(* pickImageMime(filename, fallback) *)

\* path.extname(filename) of the uploads, "" for a name without extension
Extensions == {".png", ".PNG", ".jpg", ".jpeg", ".gif", ".webp", ".svg", ".bmp", ""}

\* file.mimetype as declared by the upload; "" when it is missing, "binary"
\* a value without a slash
DeclaredTypes ==
    {"", "binary", "image/png", "image/webp", "image/bmp", "application/pdf", "text/plain"}

\* ext.toLowerCase()
ToLowerCase(ext) == IF ext = ".PNG" THEN ".png" ELSE ext

\* fallback.startsWith("image/")
IsImageType(type) == type \in {"image/png", "image/webp", "image/bmp"}

\* fallback.includes("/")
HasSlash(type) == type \notin {"", "binary"}

\* the switch (ext) of pickImageMime, "" standing for its default branch
TypeOfExtension(ext) ==
    CASE ext = ".png" -> "image/png"
      [] ext \in {".jpg", ".jpeg"} -> "image/jpeg"
      [] ext = ".gif" -> "image/gif"
      [] ext = ".webp" -> "image/webp"
      [] ext = ".svg" -> "image/svg+xml"
      [] OTHER -> ""

PickImageMime(ext, fallback) ==
    IF fallback # "" /\ IsImageType(fallback) THEN fallback
    ELSE IF TypeOfExtension(ToLowerCase(ext)) # "" THEN TypeOfExtension(ToLowerCase(ext))
    ELSE IF fallback # "" /\ HasSlash(fallback) THEN fallback
    ELSE "application/octet-stream"

MimeInit ==
    /\ pureCall \in [fn : {"pickImageMime"}, ext : Extensions, fallback : DeclaredTypes]
    /\ pureRet = NoValue
    /\ OtpIdle /\ GenIdle /\ CsvIdle /\ MailsIdle /\ FbIdle /\ GeIdle /\ StartIdle

\* const detected = pickImageMime(filename, file.mimetype)
PickMime ==
    /\ pureCall.fn = "pickImageMime"
    /\ pureRet = NoValue
    /\ pureRet' = [value |-> PickImageMime(pureCall.ext, pureCall.fallback)]
    /\ UNCHANGED <<pureCall, otpVars, genVars, csvVars, mailsVars, fbVars, geVars, startVars>>

SpecMime == MimeInit /\ [][PickMime]_vars

----------------------------------------------------------------------------
(* POST /generate-email: one request.  The handler awaits one call of         *)
(* fetchWithBackoff with the default maxRetries; the steps of that call are   *)
(* those of the fetchWithBackoff model above.                                 *)

\* the request and what the endpoint has in store for it: whether content is
\* given, whether the returned object carries candidates[0].content.parts[0].text,
\* and whether the error bodies of the endpoint carry error.message
GeRequests == [content : BOOLEAN, hasText : BOOLEAN, hasMessage : BOOLEAN]

GeResponse(status, html, error, details) ==
    [status |-> status, html |-> html, error |-> error, details |-> details]

\* error.message of the error thrown by fetchWithBackoff: its text, whether
\* JSON.parse accepts it, and the error.message member of the parsed value
\* ("" when there is none)
ErrorMessage(e, hasMessage) ==
    IF e.error = "error body" THEN
        [raw |-> "JSON of the error body", json |-> TRUE,
         message |-> IF hasMessage THEN "upstream message" ELSE ""]
    ELSE IF e.error = "Unknown error" THEN
        [raw |-> "JSON of the fallback object", json |-> TRUE, message |-> "Unknown error"]
    ELSE [raw |-> e.error, json |-> FALSE, message |-> ""]

\* a mutation: the details are always the raw text of the error
ExtractDetails_Raw(m) == m.raw

\* let errorDetails = error.message;
\* try { const parsedError = JSON.parse(error.message);
\*       if (parsedError.error?.message) errorDetails = parsedError.error.message; } catch {}
ExtractDetails(m) == IF m.json /\ m.message # "" THEN m.message ELSE m.raw

\* modelOutput: the text of the first candidate, or the fixed error document
ModelOutput(hasText) ==
    IF hasText THEN "text of the first candidate" ELSE "Error: No content generated by the model."

GeInit ==
    /\ geReq \in GeRequests
    /\ gePc = "start"
    /\ geResp = NoResp
    /\ geResponses = 0
    /\ OtpIdle /\ GenIdle /\ CsvIdle /\ MailsIdle /\ FbIdle /\ PureIdle /\ StartIdle

\* the handler up to its await: the content check, then fetchWithBackoff is entered
GeStart ==
    /\ gePc = "start"
    /\ IF ~geReq.content THEN
           /\ geResp' = GeResponse(400, "", "Missing 'content' in the request body.", "")
           /\ geResponses' = geResponses + 1
           /\ gePc' = "done"
           /\ UNCHANGED fbVars
       ELSE
           /\ gePc' = "awaiting"
           /\ maxRetries' = DefaultMaxRetries
           /\ fbPc' = "called"
           /\ attempt' = 0
           /\ backoffTime' = InitialBackoff
           /\ UNCHANGED <<fbRequests, fbWaits, fbLast, fbResult, geResp, geResponses>>
    /\ UNCHANGED <<geReq, otpVars, genVars, csvVars, mailsVars, pureVars, startVars>>

\* fetchWithBackoff returned or threw: the rest of the try block, or the catch
GeFinish ==
    /\ gePc = "awaiting"
    /\ fbPc \in {"returned", "thrown"}
    /\ geResp' = IF fbPc = "returned"
                 THEN GeResponse(200, ModelOutput(geReq.hasText), "", "")
                 ELSE GeResponse(500, "", "Failed to generate email",
                                 ExtractDetails(ErrorMessage(fbResult, geReq.hasMessage)))
    /\ geResponses' = geResponses + 1
    /\ gePc' = "done"
    /\ UNCHANGED <<geReq, fbVars, otpVars, genVars, csvVars, mailsVars, pureVars, startVars>>

GeNext ==
    \/ GeStart
    \/ FbCall
    \/ \E o \in Outcomes : FbSettled(o)
    \/ FbDelayDone
    \/ GeFinish

SpecGenerate == GeInit /\ [][GeNext]_vars

----------------------------------------------------------------------------
(* Server start-up: startServer of the sender, app.listen of the merged server *)

MaxAttempts == 20

\* the copies of the server whose start-up handles a listen error
StartCopies == {"sender", "merged"}

\* values of process.env.PORT as a number; 0 stands for a variable that is not set
EnvPorts == {0, 5000, 8080}

\* parseInt(process.env.PORT, 10) || 3000 in the sender, process.env.PORT || 4000
\* in the merged server
ConfiguredPort(copy, env) ==
    IF env # 0 THEN env ELSE IF copy = "sender" THEN 3000 ELSE 4000

\* what one app.listen(port) comes to: the 'listening' callback, or an 'error'
\* event with this code
ListenErrors == {"EADDRINUSE", "EACCES"}

Attempt(port, outcome) == [port |-> port, outcome |-> outcome]

StartInit ==
    /\ startCopy \in StartCopies
    /\ \E env \in EnvPorts : initialPort = ConfiguredPort(startCopy, env)
    /\ tryIdx = 0
    /\ startPc = "listen"
    /\ startLog = <<>>
    /\ OtpIdle /\ GenIdle /\ CsvIdle /\ MailsIdle /\ FbIdle /\ PureIdle /\ GeIdle

\* the port of the app.listen in progress: port + i in startServer, PORT in the
\* merged server
TryPort == initialPort + tryIdx

\* the listen callback runs: the promise resolves and startServer returns; the
\* merged server just logs
StartListening ==
    /\ startPc = "listen"
    /\ startLog' = Append(startLog, Attempt(TryPort, "listening"))
    /\ startPc' = "serving"
    /\ UNCHANGED <<startCopy, initialPort, tryIdx,
                   otpVars, genVars, csvVars, mailsVars, fbVars, pureVars, geVars>>

\* after an EADDRINUSE: startServer continues its loop and falls out of it to
\* process.exit(1) after attemptsLeft rounds; the handler of the merged server
\* calls process.exit(1)
AfterAddrInUse(copy, i) ==
    IF copy = "sender" /\ i + 1 < MaxAttempts
    THEN [pc |-> "listen", idx |-> i + 1]
    ELSE [pc |-> "exited", idx |-> i]

\* the 'error' event with code EADDRINUSE
StartAddrInUse ==
    /\ startPc = "listen"
    /\ startLog' = Append(startLog, Attempt(TryPort, "EADDRINUSE"))
    /\ startPc' = AfterAddrInUse(startCopy, tryIdx).pc
    /\ tryIdx' = AfterAddrInUse(startCopy, tryIdx).idx
    /\ UNCHANGED <<startCopy, initialPort,
                   otpVars, genVars, csvVars, mailsVars, fbVars, pureVars, geVars>>

\* the 'error' event with another code: both copies log and call process.exit(1)
StartOtherError ==
    /\ startPc = "listen"
    /\ \E code \in ListenErrors \ {"EADDRINUSE"} :
           startLog' = Append(startLog, Attempt(TryPort, code))
    /\ startPc' = "exited"
    /\ UNCHANGED <<startCopy, initialPort, tryIdx,
                   otpVars, genVars, csvVars, mailsVars, fbVars, pureVars, geVars>>

StartNext ==
    \/ StartListening
    \/ StartAddrInUse
    \/ StartOtherError

SpecStart == StartInit /\ [][StartNext]_vars

----------------------------------------------------------------------------
(* Properties of the OTP store *)

\* this step is the start of a /send-otp for e: it hands the mail with the code
\* to the transport, and one more request awaits sendMail
IssueStep(e) ==
    /\ sent'.to = e
    /\ pending' = pending (+) SetToBag({[email |-> e, pc |-> "mail"]})

\* this step is a /verify-otp call for e carrying a non-empty code
VerifyStep(e) ==
    /\ resp'.op = "verify-otp"
    /\ resp'.email = e
    /\ resp'.otp # <<>>

RECURSIVE DecimalValue(_)
\* the integer a sequence of decimal digits denotes
DecimalValue(ds) ==
    IF ds = <<>> THEN 0
    ELSE 10 * DecimalValue(SubSeq(ds, 1, Len(ds) - 1)) + ds[Len(ds)]

\* C1: a verify carrying the stored code, not later than the expiry, succeeds
\* and removes the record; every further verify for that email with no
\* /send-otp for it in between is answered "OTP not found"; an issued record
\* is verified successfully at most once.
C1_SingleUse ==
    /\ [][\A e \in Emails :
            /\ ( /\ otpStore[e] # NoRecord
                 /\ VerifyStep(e)
                 /\ resp'.otp = otpStore[e].otp
                 /\ now <= otpStore[e].expiresAt )
               => ( /\ resp'.success
                    /\ resp'.status = 200
                    /\ otpStore'[e] = NoRecord )
            /\ (okCount[e] > 0 /\ VerifyStep(e))
               => (~resp'.success /\ resp'.msg = MsgNotFound)
         ]_vars
    /\ [](\A e \in Emails : okCount[e] <= 1)

\* a repeated verify after a success was answered "OTP not found"
C1_Witness ==
    /\ resp.op = "verify-otp"
    /\ resp.otp # <<>>
    /\ resp.msg = MsgNotFound
    /\ okCount[resp.email] = 1

\* C2: the outcome of /verify-otp is decided in the order: no record ->
\* "not found", store unchanged; else now > expiry -> "expired", record
\* deleted; else code differs -> "Invalid OTP"; else success, record deleted.
\* A wrong code after the expiry is answered "expired", never "Invalid OTP".
C2_CheckOrder ==
    [][\A e \in Emails : VerifyStep(e) =>
          LET record == otpStore[e] IN
          IF record = NoRecord THEN
              /\ resp'.msg = MsgNotFound /\ ~resp'.success
              /\ otpStore' = otpStore
          ELSE IF now > record.expiresAt THEN
              /\ resp'.msg = MsgExpired /\ ~resp'.success
              /\ otpStore'[e] = NoRecord
          ELSE IF resp'.otp # record.otp THEN
              /\ resp'.msg = MsgInvalid /\ ~resp'.success
          ELSE
              /\ resp'.msg = MsgVerified /\ resp'.success
              /\ otpStore'[e] = NoRecord
      ]_vars

\* a verify after the expiry was answered "expired" and the record is gone
C2_Witness ==
    /\ resp.op = "verify-otp"
    /\ resp.msg = MsgExpired
    /\ otpStore[resp.email] = NoRecord
    /\ \E e \in Emails : otpStore[e] # NoRecord

\* C3: a verify with a wrong code before the expiry is answered "Invalid OTP"
\* and leaves the whole store unchanged; the correct code, presented next
\* and before the expiry, still verifies.
C3_MismatchKeepsRecord ==
    [][\A e \in Emails :
          /\ ( /\ otpStore[e] # NoRecord
               /\ VerifyStep(e)
               /\ resp'.otp # otpStore[e].otp
               /\ now <= otpStore[e].expiresAt )
             => ( /\ resp'.msg = MsgInvalid
                  /\ ~resp'.success
                  /\ otpStore' = otpStore )
          /\ ( /\ resp.op = "verify-otp" /\ resp.msg = MsgInvalid /\ resp.email = e
               /\ VerifyStep(e)
               /\ otpStore[e] # NoRecord
               /\ resp'.otp = otpStore[e].otp
               /\ now <= otpStore[e].expiresAt )
             => resp'.success
      ]_vars

\* after a mismatch the record is still stored, with a code other than the
\* one presented, and not expired
C3_Witness ==
    /\ resp.op = "verify-otp"
    /\ resp.msg = MsgInvalid
    /\ otpStore[resp.email] # NoRecord
    /\ otpStore[resp.email].otp # resp.otp
    /\ now <= otpStore[resp.email].expiresAt

\* C4: a verify later than the expiry of a stored record is answered
\* "OTP expired" whatever the code, and removes the record; no sweep is needed.
C4_ExpiredOnVerify ==
    [][\A e \in Emails :
          ( /\ otpStore[e] # NoRecord
            /\ VerifyStep(e)
            /\ now > otpStore[e].expiresAt )
          => ( /\ resp'.msg = MsgExpired
               /\ ~resp'.success
               /\ otpStore'[e] = NoRecord )
      ]_vars

\* "expired" was answered although the sweep has never run
C4_Witness ==
    /\ resp.op = "verify-otp"
    /\ resp.msg = MsgExpired
    /\ nextSweep = SweepPeriod
    /\ otpStore[resp.email] = NoRecord

\* C5: the store holds at most one record per email, and a /send-otp replaces
\* the record of its email completely: the new record alone decides later
\* verifies, so when the code changed the old code is answered "Invalid OTP"
\* and the new one verifies.
C5_OneRecordPerEmail ==
    /\ [](/\ DOMAIN otpStore = Emails
          /\ \A e \in Emails :
                otpStore[e] # NoRecord => DOMAIN otpStore[e] = {"otp", "expiresAt"})
    /\ [][\A e \in Emails : IssueStep(e) =>
             /\ otpStore'[e] = [otp |-> sent'.otp, expiresAt |-> now + OtpTtl]
             /\ VerifyHandler(otpStore', now', e, otpStore'[e].otp).resp.success
             /\ (otpStore[e] # NoRecord /\ otpStore[e].otp # otpStore'[e].otp)
                => VerifyHandler(otpStore', now', e, otpStore[e].otp).resp.msg = MsgInvalid
       ]_vars

\* two issuances for one email are in flight (neither mail is out yet) and the
\* store holds a single record for it
C5_Witness ==
    \E e \in Emails :
        /\ BagIn([email |-> e, pc |-> "mail"], pending)
        /\ pending[[email |-> e, pc |-> "mail"]] = 2
        /\ otpStore[e] # NoRecord

\* C6: every code written to the store is the decimal string of an integer
\* in 100000 .. 999999: six digits, the first not 0.
C6_SixDigits ==
    \A e \in Emails : otpStore[e] # NoRecord =>
        LET c == otpStore[e].otp IN
        /\ Len(c) = 6
        /\ \A i \in 1 .. Len(c) : c[i] \in 0 .. 9
        /\ c[1] # 0
        /\ DecimalValue(c) >= 100000
        /\ DecimalValue(c) <= 999999

\* a code was written for the largest draw of the random source
C6_Witness ==
    /\ rnd = RandDen - 1
    /\ \E e \in Emails : otpStore[e] # NoRecord

\* C7: a record written at time t expires at exactly t + 300000, whatever the
\* record it replaces; a record changes in no other way than by being
\* written or removed, so its expiry is never more than 300000 ahead.
C7_ExpiryFromIssuance ==
    /\ [][\A e \in Emails :
            /\ IssueStep(e) =>
                  (otpStore'[e] # NoRecord /\ otpStore'[e].expiresAt = now + OtpTtl)
            /\ (otpStore'[e] # otpStore[e] /\ otpStore'[e] # NoRecord) => IssueStep(e)
       ]_vars
    /\ [](\A e \in Emails :
             otpStore[e] # NoRecord => otpStore[e].expiresAt <= now + OtpTtl)

\* a record was re-issued later than time 0 while an earlier request for the
\* same email is still in flight, and it expires 300000 after the re-issuance
C7_Witness ==
    \E e \in Emails :
        /\ now > 0
        /\ BagIn([email |-> e, pc |-> "mail"], pending)
        /\ BagIn([email |-> e, pc |-> "audit"], pending)
        /\ otpStore[e] # NoRecord
        /\ otpStore[e].expiresAt = now + OtpTtl

\* this step ends a /send-otp whose mail was delivered (it was awaiting the
\* audit write)
AuditEnds(e) == pending = pending' (+) SetToBag({[email |-> e, pc |-> "audit"]})

\* C8: once the mail was delivered, /send-otp answers success:true "OTP sent"
\* whether or not the audit write succeeds, in every /send-otp handler.
C8_AuditNeverFails ==
    [][\A e \in Emails : AuditEnds(e) =>
          (resp'.op = "send-otp" /\ resp'.email = e /\ resp'.success
           /\ resp'.msg = MsgSent)
      ]_vars

\* this step is a run of the sweep
SweepStep == nextSweep' # nextSweep

\* C9: a sweep at time now removes exactly the records with expiresAt <= now
\* and leaves every other record as it was; it can run on any store,
\* the empty one included.
C9_SweepExact ==
    /\ [][SweepStep =>
            \A e \in Emails :
                /\ otpStore'[e] # NoRecord => otpStore'[e].expiresAt > now
                /\ (otpStore[e] # NoRecord /\ otpStore[e].expiresAt > now)
                   => otpStore'[e] = otpStore[e]
                /\ otpStore[e] = NoRecord => otpStore'[e] = NoRecord
       ]_vars
    /\ [](now >= nextSweep => ENABLED Sweep)

\* the sweep has just run at the very expiry of a record: that record is gone
\* without having been verified, and a later record is still stored
C9_Witness ==
    /\ nextSweep = now + SweepPeriod
    /\ now = OtpTtl
    /\ resp = NoResp
    /\ sent = NoMail
    /\ \E e1, e2 \in Emails :
          /\ otpStore[e1] = NoRecord /\ okCount[e1] = 0
          /\ pending # EmptyBag /\ \A p \in BagToSet(pending) : p.email = e1
          /\ otpStore[e2] # NoRecord /\ otpStore[e2].expiresAt > now

----------------------------------------------------------------------------
(* Properties of the /send-csv loop *)

\* the claim's reading of a row: its email or its Email column is non-empty
HasEmail(r) ==
    \/ (r.email # Undefined /\ r.email # "")
    \/ (r.Email # Undefined /\ r.Email # "")

\* number of rows with an email among the first n rows
EmailRows(rows, n) == Cardinality({i \in 1 .. n : HasEmail(rows[i])})

\* the rows the loop is through with: all rows before the current one, and
\* the current one too once its send attempt has been counted
RowsDone ==
    IF csvPc = "delaying" THEN csvIdx
    ELSE IF csvIdx > Len(csvReq.rows) THEN Len(csvReq.rows)
    ELSE csvIdx - 1

\* C10: at every point of the loop, sent + failed is the number of rows with an
\* email among the rows done, failures has one entry per failed attempt, and
\* the summary of the response carries these counts for the whole CSV.
C10_CountsMatchRows ==
    /\ csvPc \in {"loop", "sending", "delaying"} =>
          /\ results.sent + results.failed = EmailRows(csvReq.rows, RowsDone)
          /\ Len(results.failures) = results.failed
    /\ (csvPc = "done" /\ csvResp.success) =>
          /\ csvResp.summary.sent + csvResp.summary.failed
                = EmailRows(csvReq.rows, Len(csvReq.rows))
          /\ Len(csvResp.summary.failures) = csvResp.summary.failed

\* a summary was returned for a CSV with a skipped row, a delivered row and a
\* failed row
C10_Witness ==
    /\ csvPc = "done"
    /\ csvResp.success
    /\ csvResp.summary.sent = 1
    /\ csvResp.summary.failed = 1
    /\ Len(csvReq.rows) = 3

----------------------------------------------------------------------------
(* Properties of the two send loops *)

\* the indices of the rows with an email, in CSV order
EmailRowIdx(rows) ==
    SelectSeq([i \in 1 .. Len(rows) |-> i], LAMBDA i : HasEmail(rows[i]))

\* the failure entries a response carries
RecordedFailures(r) == IF "summary" \in DOMAIN r THEN r.summary.failures ELSE <<>>

\* C11: in /send-csv and in /send-mails, when the loop has run, every row with
\* an email was handed to the transport exactly once, in order, whatever the
\* earlier attempts came to, and the failure entries recorded are one
\* {email, error} entry per failed attempt.
C11_FailureNeverStopsBatch ==
    /\ (csvPc = "done" /\ csvResp.status = 200) =>
          /\ attempts = EmailRowIdx(csvReq.rows)
          /\ Len(RecordedFailures(csvResp)) = Len(attempts) - csvResp.summary.sent
          /\ \A k \in 1 .. Len(RecordedFailures(csvResp)) :
                DOMAIN RecordedFailures(csvResp)[k] = {"email", "error"}
    /\ (mailsPc = "done" /\ mailsResp.status = 200) =>
          /\ mailsAttempts = EmailRowIdx(mailsReq.rows)
          /\ Len(RecordedFailures(mailsResp)) = Len(mailsFailed)

\* C12: when the transport failed for every recipient of a /send-csv batch, the
\* response is still 200 with success true, and its summary has sent = 0,
\* failed = N and N failure entries, N being the number of send attempts.
C12_AllFailedStillSuccess ==
    (csvPc = "done" /\ attempts # <<>> /\ results.sent = 0) =>
        /\ csvResp.status = 200
        /\ csvResp.success
        /\ csvResp.summary.sent = 0
        /\ csvResp.summary.failed = Len(attempts)
        /\ Len(csvResp.summary.failures) = Len(attempts)

\* a batch of MaxRows recipients, all of them failed, was answered
C12_Witness ==
    /\ csvPc = "done"
    /\ Len(attempts) = MaxRows
    /\ results.sent = 0
    /\ csvResp.summary.failed = MaxRows

----------------------------------------------------------------------------
(* Properties of the request validation *)

\* the first of the three /send-csv checks that request r fails, or "" if it
\* passes them all (or its CSV cannot be read)
CsvRejection(r) ==
    IF ~r.hasCsv THEN "CSV file is required."
    ELSE IF ~r.subject \/ ~r.html THEN "Missing subject or HTML body."
    ELSE IF r.stream = "ok" /\ Len(r.rows) = 0 THEN "No recipients found in CSV."
    ELSE ""

\* C13: a /send-csv request without csvFile, without subject, without html or
\* with a CSV of zero rows never reaches the transport and is answered 400,
\* with the message of the first failing check in the order CSV file, then
\* subject and html, then at least one row.
C13_CsvValidation ==
    CsvRejection(csvReq) # "" =>
        /\ attempts = <<>>
        /\ csvPc \in {"start", "parsing", "done"}
        /\ csvPc = "done" => csvResp = CsvError(400, CsvRejection(csvReq))

\* a request with neither csvFile nor subject was answered by the CSV check
C13_Witness ==
    /\ csvPc = "done"
    /\ ~csvReq.hasCsv
    /\ ~csvReq.subject
    /\ csvResp.status = 400
    /\ csvResp.error = "CSV file is required."

\* C14: a /send-mails request without csvFile, without subject or without html
\* never reaches the transport, and its response is a 400 with a message.
C14_MailsValidation ==
    (~mailsReq.hasFile \/ ~mailsReq.subject \/ ~mailsReq.html) =>
        /\ mailsAttempts = <<>>
        /\ mailsPc = "done" => (mailsResp.status = 400 /\ mailsResp.error # "")

\* the handler has come to rest: it answered, or nothing of it is left to run
CsvAtRest == csvPc \in {"done", "crashed"}
MailsAtRest == mailsPc \in {"done", "crashed"}

\* C15: when reading the uploaded CSV ends in a stream error, no send attempt
\* is made and the request receives an error response: the handler, of
\* /send-csv and of /send-mails, does not come to rest without having sent one.
C15_StreamErrorAnswered ==
    /\ (csvPc # "idle" /\ csvReq.hasCsv /\ csvReq.subject /\ csvReq.html
            /\ csvReq.stream # "ok") =>
          /\ attempts = <<>>
          /\ CsvAtRest => (csvResp # NoResp /\ csvResp.status >= 400)
    /\ (mailsPc # "idle" /\ mailsReq.hasFile /\ ~mailsReq.streamOk) =>
          /\ mailsAttempts = <<>>
          /\ MailsAtRest => (mailsResp # NoResp /\ mailsResp.status >= 400)

----------------------------------------------------------------------------
(* Properties of the inline images of /send-csv *)

\* the request passes the three validation checks and its CSV is read
CsvAccepted(r) ==
    r.hasCsv /\ r.subject /\ r.html /\ r.stream = "ok" /\ Len(r.rows) > 0

\* the messages naming an uploaded image of r of unsupported type
UnsupportedUploads(r) ==
    (IF r.logoFile # "none" /\ ~IsSupported(r.logoFile)
     THEN {UnsupportedMsg(OriginalName("logo"), r.logoFile)} ELSE {})
    \cup (IF r.bannerFile # "none" /\ ~IsSupported(r.bannerFile)
          THEN {UnsupportedMsg(OriginalName("banner"), r.bannerFile)} ELSE {})

\* the same, for the uploads the handler prepares: those without a URL
UnsupportedPrepared(r) ==
    (IF Prepared(r.logoUrl, r.logoFile) /\ ~IsSupported(r.logoFile)
     THEN {UnsupportedMsg(OriginalName("logo"), r.logoFile)} ELSE {})
    \cup (IF Prepared(r.bannerUrl, r.bannerFile) /\ ~IsSupported(r.bannerFile)
          THEN {UnsupportedMsg(OriginalName("banner"), r.bannerFile)} ELSE {})

\* C16, as stated: when an uploaded logo or banner is of an unsupported type
\* and the transcode is not available, no message is sent and the response is
\* a 400 naming the file and the detected type of such an upload.
C16_UnsupportedUploadRejected ==
    (csvPc # "idle" /\ CsvAccepted(csvReq) /\ ~csvReq.sharpOk
        /\ UnsupportedUploads(csvReq) # {}) =>
        /\ attempts = <<>>
        /\ csvPc = "done" =>
              /\ csvResp.status = 400
              /\ csvResp.error \in UnsupportedUploads(csvReq)

\* C16, amended: the same for an uploaded logo or banner for which no URL was
\* supplied (an upload that comes with a URL is not prepared at all).
C16_UnsupportedPreparedRejected ==
    (csvPc # "idle" /\ CsvAccepted(csvReq) /\ ~csvReq.sharpOk
        /\ UnsupportedPrepared(csvReq) # {}) =>
        /\ attempts = <<>>
        /\ csvPc = "done" =>
              /\ csvResp.status = 400
              /\ csvResp.error \in UnsupportedPrepared(csvReq)

\* a request whose logo was prepared and whose banner could not be was rejected
C16_Witness ==
    /\ csvPc = "done"
    /\ CsvAccepted(csvReq)
    /\ ~csvReq.sharpOk
    /\ Prepared(csvReq.logoUrl, csvReq.logoFile) /\ IsSupported(csvReq.logoFile)
    /\ Prepared(csvReq.bannerUrl, csvReq.bannerFile) /\ ~IsSupported(csvReq.bannerFile)
    /\ csvResp.status = 400

\* C17: when a /send-csv request ends with the summary, with the rejection of
\* an unsupported image or with the 500 of the caught exception, none of the
\* temporary files uploaded with it is left on disk.
C17_NoTempFileRemains ==
    (csvPc = "done"
        /\ \/ csvResp.status \in {200, 500}
           \/ csvResp.error \in UnsupportedPrepared(csvReq)) =>
        files = {}

----------------------------------------------------------------------------
(* Properties of fetchWithBackoff *)

\* a response with a status that is neither 2xx nor 429 nor 5xx
IsOtherStatus(o) == o.kind = "response" /\ ~IsOk(o.status) /\ ~IsRetryable(o.status)

\* this step is the one in which the pending fetch() settles
SettleStep == fbPc = "fetching" /\ fbPc' # "fetching"

\* C18: a call never issues more than maxRetries requests, and the wait that
\* precedes its k-th retry is 1000 * 2^(k-1) ms, whatever made it retry.
C18_RequestsAndSchedule ==
    /\ fbRequests <= maxRetries
    /\ \A k \in 1 .. fbRequests - 1 : fbWaits[k] = 1000 * 2 ^ (k - 1)

\* the fifth request of a call with the default maxRetries is under way, after
\* the waits 1000, 2000, 4000 and 8000
C18_Witness ==
    /\ maxRetries = 5
    /\ fbPc = "fetching"
    /\ fbRequests = 5
    /\ fbWaits = <<1000, 2000, 4000, 8000>>

\* C19: when a response has a status that is neither 2xx nor 429 nor 5xx, the
\* call fails in that very step: no delay is begun, no request follows, and
\* the error thrown carries the body of the response.
C19_OtherStatusFailsAtOnce ==
    [][(SettleStep /\ IsOtherStatus(fbLast')) =>
          /\ fbPc' = "thrown"
          /\ fbWaits' = fbWaits
          /\ fbRequests' = fbRequests
          /\ fbLast'.bodyOk => fbResult'.of = fbLast']_vars

\* the call is over
FbOver == fbPc \in {"returned", "thrown"}

\* a value is returned only as the parsed body of a 2xx response, the latest one
ReturnsOnlyOkBody ==
    fbPc = "returned" =>
        /\ fbResult = Returned(fbLast)
        /\ fbLast.kind = "response" /\ IsOk(fbLast.status) /\ fbLast.bodyOk

\* C20, as stated: every call ends, by a return or by a throw, after at most
\* maxRetries requests; it returns only the parsed body of a 2xx response; and
\* the step in which a 2xx response arrives ends the call.
C20_TerminatesFirstOkEnds ==
    /\ <>FbOver
    /\ [](FbOver => fbRequests <= maxRetries)
    /\ []ReturnsOnlyOkBody
    /\ [][(SettleStep /\ fbLast'.kind = "response" /\ IsOk(fbLast'.status)) =>
            fbPc' = "returned"]_vars

\* C20, amended: the same, the last part for a 2xx response whose body parses
\* (a 2xx response whose body does not parse counts as a failed attempt).
C20_TerminatesFirstParsedOkEnds ==
    /\ <>FbOver
    /\ [](FbOver => fbRequests <= maxRetries)
    /\ []ReturnsOnlyOkBody
    /\ [][(SettleStep /\ fbLast'.kind = "response" /\ IsOk(fbLast'.status)
                /\ fbLast'.bodyOk) =>
            (fbPc' = "returned" /\ fbRequests' = fbRequests /\ fbWaits' = fbWaits)]_vars

\* a call with the default maxRetries returned the body of the 2xx response to
\* its fifth request
C20_Witness ==
    /\ maxRetries = 5
    /\ fbPc = "returned"
    /\ fbRequests = 5
    /\ IsOk(fbLast.status)

----------------------------------------------------------------------------
(* Properties of the personalization *)

RECURSIVE Verbatim(_, _)
\* html with every occurrence of the token, from left to right, replaced by
\* the symbols of name as they are
Verbatim(html, name) ==
    IF html = <<>> THEN <<>>
    ELSE IF Len(html) >= Len(Token) /\ SubSeq(html, 1, Len(Token)) = Token
        THEN name \o Verbatim(SubSeq(html, Len(Token) + 1, Len(html)), name)
    ELSE <<Head(html)>> \o Verbatim(Tail(html), name)

\* the claim's resolved name: name, else Name, else the default
ClaimedName(c) ==
    IF c.row.name # <<>> THEN c.row.name
    ELSE IF c.row.Name # <<>> THEN c.row.Name
    ELSE IF c.handler = "send-mails" THEN <<"User">> ELSE <<>>

\* C21: the personalized body is the HTML body with every occurrence of the
\* token [Name] replaced by the resolved name, symbol for symbol, and nothing
\* else changed; and the substitution applied to that result returns it unchanged.
C21_VerbatimAndIdempotent ==
    /\ [](pureCall.fn = "personalize" /\ pureRet # NoValue /\ pureRet.times = 1
            => pureRet.value = Verbatim(pureCall.html, ClaimedName(pureCall)))
    /\ [][PersonalizeAgain => pureRet'.value = pureRet.value]_vars

----------------------------------------------------------------------------
(* Properties of the image helpers *)

\* url is of one of the three drive forms, carrying the identifier id
IsDriveForm(url, id) ==
    /\ url.wellFormed
    /\ url.hostname = DriveHost
    /\ \/ url.pathname = <<"file", "d", id, "view">>
       \/ url.pathname = <<"open">> /\ url.query = <<Param("id", id)>>
       \/ url.pathname = <<"uc">>
            /\ url.query = <<Param("export", "download"), Param("id", id)>>

\* url is a drive URL that carries no identifier
IsDriveWithoutId(url) ==
    /\ url.wellFormed
    /\ url.hostname = DriveHost
    /\ url.pathname \in {<<"open">>, <<"uc">>, <<"file", "d">>, <<"logo.png">>}
    /\ url.query \in {<<>>, <<Param("usp", "sharing")>>, <<Param("id", "")>>}

\* C22: the three drive forms of one identifier all give the direct-view URL
\* of that identifier; a URL of another host, a drive URL without identifier
\* and a malformed URL are returned as they are.
C22_NormalizeImageUrl ==
    (pureCall.fn = "normalizeImageUrl" /\ pureRet # NoValue) =>
        /\ \A id \in FileIds :
              IsDriveForm(pureCall.url, id) => pureRet.value = DirectView(id)
        /\ (pureCall.url.wellFormed /\ pureCall.url.hostname # DriveHost)
              => pureRet.value = pureCall.url
        /\ IsDriveWithoutId(pureCall.url) => pureRet.value = pureCall.url
        /\ ~pureCall.url.wellFormed => pureRet.value = pureCall.url

\* the type the claim assigns to an extension, "" for any other extension
ClaimedType(ext) ==
    CASE ext \in {".png", ".PNG"} -> "image/png"
      [] ext \in {".jpg", ".jpeg"} -> "image/jpeg"
      [] ext = ".gif" -> "image/gif"
      [] ext = ".webp" -> "image/webp"
      [] ext = ".svg" -> "image/svg+xml"
      [] OTHER -> ""

\* C23: for a filename with one of the extensions .png, .jpg, .jpeg, .gif,
\* .webp, .svg the detected type is the type of that extension, whatever
\* content type the upload declares.
C23_ExtensionFirst ==
    (pureCall.fn = "pickImageMime" /\ pureRet # NoValue
        /\ ClaimedType(pureCall.ext) # "") =>
        pureRet.value = ClaimedType(pureCall.ext)

----------------------------------------------------------------------------
(* Properties of the messages of /send-csv *)

\* what the claim requires of the image block of a message: the URL when one
\* was supplied, a cid reference when only a file was uploaded, else nothing
BlockAsClaimed(block, url, upload) ==
    IF url THEN block.src = "url"
    ELSE IF upload # "none" THEN block.src = "cid"
    ELSE block.src = "none"

\* the attachments of message m whose content-id is c
AttachmentsWithCid(m, c) ==
    {k \in 1 .. Len(m.attachments) : m.attachments[k].cid = c}

\* C24: every message of a /send-csv batch has the logo block and the banner
\* block the request calls for; a block that references a cid comes with
\* exactly one attachment of that content-id; and the content-ids of logo
\* and banner differ.
C24_ImageBlocks ==
    csvMail # NoMail =>
        /\ BlockAsClaimed(csvMail.logo, csvReq.logoUrl, csvReq.logoFile)
        /\ BlockAsClaimed(csvMail.banner, csvReq.bannerUrl, csvReq.bannerFile)
        /\ \A b \in {csvMail.logo, csvMail.banner} :
              b.src = "cid" => Cardinality(AttachmentsWithCid(csvMail, b.cid)) = 1
        /\ (csvMail.logo.src = "cid" /\ csvMail.banner.src = "cid")
              => csvMail.logo.cid # csvMail.banner.cid

----------------------------------------------------------------------------
(* Properties of /generate-email *)

\* C25: a /generate-email request is never answered twice, and once the
\* handler is through it was answered once: with 400 and no request to the
\* endpoint when content is missing; with 200 and the html when
\* fetchWithBackoff returned; with 500 when it threw, the details being the
\* error.message of the error body when the error text is JSON that has one,
\* and the error text itself otherwise.
C25_OneResponse ==
    /\ geResponses <= 1
    /\ (gePc # "idle" /\ ~geReq.content) => fbRequests = 0
    /\ gePc = "done" =>
          /\ geResponses = 1
          /\ ~geReq.content => geResp.status = 400
          /\ (geReq.content /\ fbPc = "returned") =>
                (geResp.status = 200 /\ geResp.html # "" /\ geResp.error = "")
          /\ (geReq.content /\ fbPc = "thrown") =>
                /\ geResp.status = 500
                /\ geResp.error # ""
                /\ geResp.details =
                      IF fbResult.error = "error body" /\ geReq.hasMessage
                          THEN "upstream message"
                      ELSE IF fbResult.error = "error body" THEN "JSON of the error body"
                      ELSE IF fbResult.error = "Unknown error" THEN "Unknown error"
                      ELSE fbResult.error

\* a request was answered 500 with the message of the endpoint's error body
C25_Witness ==
    /\ gePc = "done"
    /\ geResp.status = 500
    /\ fbResult.error = "error body"
    /\ geResp.details = "upstream message"

----------------------------------------------------------------------------
(* Properties of concurrent OTP requests *)

\* the /send-otp requests for e that are suspended at an await
PendingFor(e) == {p \in BagToSet(pending) : p.email = e}

\* C26: whatever the interleaving, the record of an email changes only as a
\* whole: it is removed, or it becomes the record one issuance writes (its
\* code with its own expiry); a successful verify carries the code of the
\* record in the store at that step, not later than that record's expiry; and
\* no issued record is verified successfully more than once.
C26_NoMixedRecord ==
    /\ [][\A e \in Emails :
            /\ otpStore'[e] # otpStore[e] =>
                  \/ otpStore'[e] = NoRecord
                  \/ /\ IssueStep(e)
                     /\ otpStore'[e] = [otp |-> sent'.otp, expiresAt |-> now + OtpTtl]
            /\ (VerifyStep(e) /\ resp'.success) =>
                  /\ otpStore[e] # NoRecord
                  /\ resp'.otp = otpStore[e].otp
                  /\ now <= otpStore[e].expiresAt
         ]_vars
    /\ [](\A e \in Emails : okCount[e] <= 1)

\* a verify succeeded on the record of a re-issue while both /send-otp
\* requests for that email were still suspended, at a time when the record
\* of the first issuance would have expired
C26_Witness ==
    /\ resp.op = "verify-otp"
    /\ resp.success
    /\ \E p \in PendingFor(resp.email) : CopiesIn(p, pending) = 2
    /\ now > OtpTtl

----------------------------------------------------------------------------
(* Properties of the server start-up *)

\* the first n attempts all found their port in use
AllInUse(n) ==
    /\ Len(startLog) >= n
    /\ \A j \in 1..n : startLog[j].outcome = "EADDRINUSE"

\* C27: start-up tries the configured port, then the next ones in order, each
\* after the one before was in use; it serves on the first port that binds,
\* and the process exits only after MaxAttempts ports were in use or on an
\* error other than address-in-use.
C27_FallsBackToNextPort ==
    /\ \A j \in 1..Len(startLog) : startLog[j].port = initialPort + (j - 1)
    /\ AllInUse(Len(startLog) - 1)
    /\ startPc = "serving" =>
          startLog[Len(startLog)].outcome = "listening"
    /\ startPc = "exited" =>
          \/ AllInUse(MaxAttempts)
          \/ startLog[Len(startLog)].outcome \notin {"EADDRINUSE", "listening"}

----------------------------------------------------------------------------
(* Properties of /send-otp when the delivery fails *)

\* this step ends a /send-otp for e whose mail the transport rejected
MailFails(e) ==
    /\ pending = pending' (+) SetToBag({[email |-> e, pc |-> "mail"]})
    /\ resp'.op = "send-otp"
    /\ resp'.status = 500

\* C28: /send-otp writes its record before the outcome of the delivery is
\* known; a rejected mail is answered 500 "Failed to send OTP" and leaves
\* the store as it was, so after an issuance whose mail is rejected the
\* store holds exactly the new record, and a verify with the code of that
\* mail, at any time up to the expiry, succeeds.
C28_RecordSurvivesFailedDelivery ==
    [][\A e \in Emails :
          /\ IssueStep(e) =>
                /\ otpStore'[e] = [otp |-> sent'.otp, expiresAt |-> now + OtpTtl]
                /\ resp' = NoResp
          /\ MailFails(e) =>
                /\ resp'.msg = MsgSendFailed
                /\ ~resp'.success
                /\ otpStore' = otpStore
          /\ (MailFails(e) /\ sent.to = e) =>
                /\ otpStore'[e] = [otp |-> sent.otp, expiresAt |-> now + OtpTtl]
                /\ \A t \in {now', otpStore'[e].expiresAt} :
                       VerifyHandler(otpStore', t, e, sent.otp).resp.success
          /\ ( /\ resp.op = "send-otp" /\ resp.status = 500 /\ resp.email = e
               /\ VerifyStep(e)
               /\ otpStore[e] # NoRecord
               /\ resp'.otp = otpStore[e].otp
               /\ now <= otpStore[e].expiresAt )
             => (resp'.success /\ resp'.status = 200)
      ]_vars

\* an issuance later than time 0 was answered 500, nothing is in flight,
\* and its record is in the store, not expired and not verified
C28_Witness ==
    /\ resp.op = "send-otp"
    /\ resp.status = 500
    /\ resp.msg = MsgSendFailed
    /\ now > 0
    /\ pending = EmptyBag
    /\ otpStore[resp.email] # NoRecord
    /\ otpStore[resp.email].expiresAt = now + OtpTtl
    /\ okCount[resp.email] = 0

----------------------------------------------------------------------------
(* Properties at the instant of expiry *)

\* /verify-otp at time t would answer "OTP expired" for the record of e
VerifyRejectsAsExpired(store, t, e) ==
    VerifyHandler(store, t, e, store[e].otp).resp.msg = MsgExpired

\* the sweep at time t would delete the record of e
SweepDeletes(store, t, e) == SweepStore(store, t)[e] = NoRecord

\* the sweep has run at the present time
SweptNow == nextSweep = now + SweepPeriod

\* C29: at now = expiresAt a verify with the stored code succeeds while a
\* sweep deletes the record, so the same verify is answered "OTP not found"
\* once the sweep has run; at every other time verify rejects a record as
\* expired exactly when the sweep would delete it.
C29_BoundaryOfExpiry ==
    /\ [](\A e \in Emails : otpStore[e] # NoRecord =>
             IF now = otpStore[e].expiresAt
             THEN /\ ~VerifyRejectsAsExpired(otpStore, now, e)
                  /\ VerifyHandler(otpStore, now, e, otpStore[e].otp).resp.success
                  /\ SweepDeletes(otpStore, now, e)
                  /\ VerifyHandler(SweepStore(otpStore, now), now, e,
                                   otpStore[e].otp).resp.msg = MsgNotFound
             ELSE VerifyRejectsAsExpired(otpStore, now, e)
                     <=> SweepDeletes(otpStore, now, e))
    /\ [][\A e \in Emails :
            /\ ( /\ VerifyStep(e)
                 /\ otpStore[e] # NoRecord
                 /\ now = otpStore[e].expiresAt
                 /\ resp'.otp = otpStore[e].otp )
               => (resp'.success /\ resp'.msg = MsgVerified)
            /\ ( /\ SweepStep
                 /\ otpStore[e] # NoRecord
                 /\ now = otpStore[e].expiresAt )
               => otpStore'[e] = NoRecord
            /\ (VerifyStep(e) /\ SweptNow /\ otpStore[e] = NoRecord)
               => (~resp'.success /\ resp'.msg = MsgNotFound)
       ]_vars

\* the sweep ran at the very expiry of a record of an email whose /send-otp
\* is still in flight, and the verify that followed at the same instant was
\* answered "OTP not found"
C29_Witness ==
    /\ now = OtpTtl
    /\ SweptNow
    /\ resp.op = "verify-otp"
    /\ resp.otp # <<>>
    /\ resp.msg = MsgNotFound
    /\ okCount[resp.email] = 0
    /\ otpStore[resp.email] = NoRecord
    /\ PendingFor(resp.email) # {}

----------------------------------------------------------------------------
(* Properties of repeated wrong codes *)

\* the codes a client can present for e that are not the stored one
WrongCodes(e) == {c \in OtpInputs : c # <<>> /\ c # otpStore[e].otp}

\* the last answer was "Invalid OTP" to a verify for e
JustMismatched(e) ==
    /\ resp.op = "verify-otp"
    /\ resp.email = e
    /\ resp.msg = MsgInvalid

\* C30: there is no attempt counter: a record is a code and an expiry and
\* nothing else; a wrong code before the expiry, also right after another
\* wrong code, is answered "Invalid OTP" with the store unchanged, and in
\* every state reached the stored code still verifies up to the expiry. A
\* record leaves the store only by a successful verify, a verify after its
\* expiry, a sweep at or after its expiry, or a new issuance for its email.
C30_NoAttemptLimit ==
    /\ [](\A e \in Emails : otpStore[e] # NoRecord =>
             /\ DOMAIN otpStore[e] = {"otp", "expiresAt"}
             /\ now <= otpStore[e].expiresAt =>
                   /\ VerifyHandler(otpStore, now, e, otpStore[e].otp).resp.success
                   /\ \A c \in WrongCodes(e) :
                          /\ VerifyHandler(otpStore, now, e, c).store = otpStore
                          /\ VerifyHandler(otpStore, now, e, c).resp.msg = MsgInvalid)
    /\ [][\A e \in Emails :
            /\ ( /\ JustMismatched(e)
                 /\ VerifyStep(e)
                 /\ otpStore[e] # NoRecord
                 /\ now <= otpStore[e].expiresAt )
               => IF resp'.otp = otpStore[e].otp
                  THEN resp'.success /\ otpStore'[e] = NoRecord
                  ELSE resp'.msg = MsgInvalid /\ otpStore' = otpStore
            /\ (otpStore[e] # NoRecord /\ otpStore'[e] # otpStore[e]) =>
                  \/ VerifyStep(e) /\ resp'.success /\ resp'.otp = otpStore[e].otp
                  \/ VerifyStep(e) /\ resp'.msg = MsgExpired /\ now > otpStore[e].expiresAt
                  \/ SweepStep /\ otpStore[e].expiresAt <= now
                  \/ IssueStep(e)
       ]_vars

\* a wrong code was presented, later than the issuance, for a record issued
\* at time 0: the record is still stored, unexpired, with nothing in flight
C30_Witness ==
    /\ resp.op = "verify-otp"
    /\ resp.msg = MsgInvalid
    /\ now > 0
    /\ pending = EmptyBag
    /\ otpStore[resp.email] # NoRecord
    /\ otpStore[resp.email].expiresAt = OtpTtl
    /\ now <= otpStore[resp.email].expiresAt
    /\ resp.otp \in WrongCodes(resp.email)

----------------------------------------------------------------------------
(* Properties of the OTP store per email *)

\* this step answers a request with 400
RejectedStep ==
    /\ resp'.op \in {"send-otp", "verify-otp"}
    /\ resp'.status = 400

\* this step belongs to a /send-otp or a /verify-otp for e: the call itself,
\* or the resumption of a /send-otp after one of its awaits
RequestStep(e) ==
    \/ IssueStep(e)
    \/ VerifyStep(e)
    \/ \E p \in PendingFor(e) : CopiesIn(p, pending') < CopiesIn(p, pending)

\* C31: a step of /send-otp or /verify-otp for an email, whatever its
\* outcome, leaves the record of every other email as it was; a request
\* answered 400 leaves the whole store as it was, hands no mail to the
\* transport and leaves no request in flight.
C31_PerKey ==
    [][/\ \A e \in Emails : RequestStep(e) =>
              \A other \in Emails \ {e} : otpStore'[other] = otpStore[other]
       /\ RejectedStep =>
              /\ otpStore' = otpStore
              /\ sent' = NoMail
              /\ pending' = pending
      ]_vars

\* a verify for one email has just succeeded and removed its record while
\* the record of the other email is still stored
C31_Witness ==
    /\ resp.op = "verify-otp"
    /\ resp.success
    /\ otpStore[resp.email] = NoRecord
    /\ \E other \in Emails \ {resp.email} :
          /\ otpStore[other] # NoRecord
          /\ okCount[other] = 0

----------------------------------------------------------------------------
(* Properties of the pacing of /send-csv *)

\* the attempts of the request that have completed
Completed == results.sent + results.failed

StrictlyIncreasing(seq) ==
    \A i, j \in DOMAIN seq : i < j => seq[i] < seq[j]

\* C32: messages are attempted one at a time in row order: an attempt starts
\* only when every earlier attempt has completed and, with delayMs > 0, its
\* delay is over; every delay lasts delayMs; the delays performed are one
\* per completed attempt, the last included, none for a skipped row, and
\* none at all when delayMs is 0, negative or NaN; a missing delayMs is 300.
C32_OneAtATimeWithDelay ==
    /\ [](csvPc # "idle" =>
            LET d == DelayMs(csvReq) IN
            /\ StrictlyIncreasing(attempts)
            /\ \A i \in DOMAIN attempts :
                   Truthy(ResolveEmail(csvReq.rows[attempts[i]]))
            /\ Len(attempts) = Completed + (IF csvPc = "sending" THEN 1 ELSE 0)
            /\ \A i \in DOMAIN delays : delays[i] = d.value
            /\ IF IsPositive(d)
               THEN Len(delays) = Completed - (IF csvPc = "delaying" THEN 1 ELSE 0)
               ELSE delays = <<>> /\ csvPc # "delaying"
            /\ (d.nan \/ d.value <= 0) => delays = <<>>
            /\ csvReq.delayMs = <<>> => (~d.nan /\ d.value = 300)
            /\ csvPc = "done" /\ IsPositive(d) => Len(delays) = Completed)
    /\ [][attempts' # attempts =>
            /\ csvPc = "loop"
            /\ attempts' = Append(attempts, csvIdx)
            /\ Len(attempts) = Completed
            /\ IsPositive(DelayMs(csvReq)) => Len(delays) = Len(attempts)
            /\ \A i \in 1 .. csvIdx - 1 :
                   Truthy(ResolveEmail(csvReq.rows[i])) =>
                       \E j \in DOMAIN attempts : attempts[j] = i
       ]_vars

\* a request without delayMs is answered after three rows, one of them
\* skipped, one sent and one failed: two delays of 300 were performed
C32_Witness ==
    /\ csvPc = "done"
    /\ csvReq.delayMs = <<>>
    /\ Len(csvReq.rows) = 3
    /\ results.sent = 1
    /\ results.failed = 1
    /\ delays = <<300, 300>>

----------------------------------------------------------------------------
(* Properties of the cleanup of /send-csv *)

\* this step is the post-loop cleanup
CleanupStep == unlinks' # unlinks

----------------------------------------------------------------------------
(* Properties of the attachment objects of /send-csv *)

\* the attachment objects and the buffers a message refers to
ObjectsOf(m) ==
    {m.attachments[k].object : k \in DOMAIN m.attachments}
        \cup {m.attachments[k].content : k \in DOMAIN m.attachments}

\* this step hands a further message of the batch to the transport
NextMessageStep == attempts' # attempts /\ csvMail # NoMail

\* C34: no attachment object and no buffer of a message handed to sendMail
\* is also in the list of the message of the same batch handed over before
\* it: whatever the transport does to the objects of one message cannot
\* show in the next.
C34_NoSharedAttachmentObjects ==
    [][NextMessageStep => ObjectsOf(csvMail) \cap ObjectsOf(csvMail') = {}]_vars

----------------------------------------------------------------------------
(* Properties of the end of the retry budget *)

RECURSIVE SumOf(_)
SumOf(seq) == IF seq = <<>> THEN 0 ELSE Head(seq) + SumOf(Tail(seq))

\* the request that has just settled was the last the budget allows
LastAttemptSettles == SettleStep /\ fbRequests = maxRetries

GenericError == Thrown("Failed after max retries", NoOutcome)

\* C35: when the last attempt of the budget gets 429 or 5xx, the call waits
\* once more, 1000 * 2^(maxRetries - 1) ms (16000 for 5), and then throws the
\* generic error, which carries no status and no body: it has waited
\* 1000 * (2^maxRetries - 1) ms in all (31000). When the last attempt raises
\* an error, that error is rethrown in the same step with no wait: it has
\* waited 1000 * (2^(maxRetries - 1) - 1) ms in all (15000).
C35_EndOfBudget ==
    /\ [][LastAttemptSettles =>
             IF fbLast'.kind = "response" /\ IsRetryable(fbLast'.status)
             THEN /\ fbPc' = "delaying"
                  /\ fbWaits' = Append(fbWaits, 1000 * 2 ^ (maxRetries - 1))
             ELSE IF fbLast'.kind = "response" /\ IsOk(fbLast'.status) /\ fbLast'.bodyOk
             THEN fbPc' = "returned"
             ELSE /\ fbPc' = "thrown"
                  /\ fbResult' = RaisedFor(fbLast')
                  /\ fbWaits' = fbWaits
                  /\ SumOf(fbWaits) = 1000 * (2 ^ (maxRetries - 1) - 1)
       ]_vars
    /\ [][(fbPc = "delaying" /\ fbRequests = maxRetries) =>
             /\ fbPc' = "thrown"
             /\ fbResult' = GenericError
             /\ fbRequests' = fbRequests
       ]_vars
    /\ []((fbPc = "thrown" /\ fbResult = GenericError) =>
             /\ fbLast.kind = "response" /\ IsRetryable(fbLast.status)
             /\ fbResult.of = NoOutcome
             /\ Len(fbWaits) = maxRetries
             /\ SumOf(fbWaits) = 1000 * (2 ^ maxRetries - 1))
    /\ []((fbPc = "thrown" /\ fbResult # GenericError) =>
             SumOf(fbWaits) <= 1000 * (2 ^ (maxRetries - 1) - 1))

\* a call with the default budget has thrown the generic error after five
\* waits, 31000 ms in all
C35_Witness ==
    /\ maxRetries = 5
    /\ fbPc = "thrown"
    /\ fbResult = GenericError
    /\ fbWaits = <<1000, 2000, 4000, 8000, 16000>>
    /\ SumOf(fbWaits) = 31000

----------------------------------------------------------------------------
(* Properties of the /send-mails response *)

\* the upload is there, subject and html are present and the CSV was read
MailsAccepted(r) == r.hasFile /\ r.subject /\ r.html /\ r.streamOk

\* C36: a /send-mails request with subject and html whose CSV was read comes
\* to rest only by its answer, which is 200 with success:true and the count
\* of all CSV rows, rows without an email and rows whose send failed
\* included; the response has no field that reports a failure.
C36_CountsAllRows ==
    (MailsAtRest /\ MailsAccepted(mailsReq)) =>
        /\ mailsPc = "done"
        /\ mailsResp.status = 200
        /\ mailsResp.success
        /\ mailsResp.count = Len(mailsReq.rows)
        /\ mailsResp.error = ""
        /\ DOMAIN mailsResp = {"status", "success", "error", "count"}

\* three rows, one of them without an email and the two others failed: the
\* answer counts three
C36_Witness ==
    /\ mailsPc = "done"
    /\ MailsAccepted(mailsReq)
    /\ Len(mailsAttempts) = 2
    /\ Len(mailsFailed) = 2
    /\ mailsResp.success
    /\ mailsResp.count = 3

----------------------------------------------------------------------------
(* Properties of a /send-csv batch without a usable row *)

\* the CSV of r has at least one row and no row has an email
NoUsableRow(r) ==
    /\ Len(r.rows) >= 1
    /\ \A i \in DOMAIN r.rows : ~Truthy(ResolveEmail(r.rows[i]))

\* r is otherwise in order: upload, subject and html are there, the CSV is
\* read and the uploaded images can be prepared
OtherwiseValid(r) ==
    r.hasCsv /\ r.subject /\ r.html /\ r.stream = "ok" /\ PrepareImages(r) = ""

\* C37: a /send-csv request whose CSV has rows but no row with an email is
\* not rejected for lack of recipients: it makes no send attempt, awaits no
\* delay, and is answered 200 with success:true and the summary sent 0,
\* failed 0, no failures.
C37_RowsNotRecipients ==
    (csvPc # "idle" /\ OtherwiseValid(csvReq) /\ NoUsableRow(csvReq)) =>
        /\ attempts = <<>>
        /\ delays = <<>>
        /\ csvPc \in {"start", "parsing", "images", "loop", "done"}
        /\ csvPc = "done" =>
              /\ csvResp.status = 200
              /\ csvResp.success
              /\ csvResp.summary.sent = 0
              /\ csvResp.summary.failed = 0
              /\ csvResp.summary.failures = <<>>

\* a CSV of MaxRows rows, none of them with an email, sent without delayMs,
\* was answered with success
C37_Witness ==
    /\ csvPc = "done"
    /\ OtherwiseValid(csvReq)
    /\ NoUsableRow(csvReq)
    /\ Len(csvReq.rows) = MaxRows
    /\ csvReq.delayMs = <<>>
    /\ csvResp.success
    /\ csvResp.summary = NewResults

====
